---- MODULE Spec2Model ----
(***************************************************************************)
(* A model of the zombie population code: Zombie.js (one agent's           *)
(* perception / combat state machine with its deferred attack callbacks)   *)
(* and EnemyManager.js (preload, staged activation, pruning).              *)
(*                                                                         *)
(* Units.  Simulated time is counted in fortieths of a second, so          *)
(* perceptionUpdateRate 0.2 is 8, attackCooldown 1.2 is 48, the 8.0 s      *)
(* chase timeout is 320 and the far-tier window "timeSinceSpawn % 3 < 0.1" *)
(* is "timeSinceSpawn % 120 < 4".  Every frame length is a multiple of     *)
(* 1/8 s (5 units): binary floating point adds and subtracts eighths       *)
(* without rounding, and no sum of eighths equals 0.1, 0.2 or 1.2, so on   *)
(* these frames the program's floating-point comparisons are the exact     *)
(* ones of the model.  Distances are counted in hundredths of a world unit *)
(* along one axis (attackRange 1.8 is 180).  Yaw is counted in units of    *)
(* pi / 3072; the turns within the time bounds are whole numbers of them.  *)
(*                                                                         *)
(* setTimeout / setInterval callbacks are kept in the order they were      *)
(* scheduled; the wall clock is not tied to the simulated clock, so a      *)
(* callback may fire after any number of ticks, subject only to the order  *)
(* the timer queue guarantees.                                             *)
(* Promise continuations (the rest of Zombie.init after its await, then    *)
(* the rest of the caller awaiting it) run in the order they were queued,  *)
(* and no timer callback runs while one is queued; calls of the manager's  *)
(* methods may come between them.                                          *)
(***************************************************************************)
EXTENDS Integers, Sequences, FiniteSets, TLC

VARIABLES
    zombies,            \* id -> Zombie object (fields of class Zombie); NoZombie before construction
    player,             \* engine.player: exists, position, and the takeDamage calls it received
    timers,             \* pending setTimeout callbacks, in scheduling order: the damage and
                        \* return callbacks of processAttackState and the setTimeout(0)
                        \* yields of preloadZombies
    managerEnabled,     \* EnemyManager.enabled
    enemies,            \* EnemyManager.enemies (active roster), a sequence of ids
    preloadedZombies,   \* EnemyManager.preloadedZombies, a sequence of ids
    preloadComplete,    \* EnemyManager.preloadComplete
    config,             \* EnemyManager.config
    entities,           \* engine.entityManager: the sequence of addEntity calls not yet removed
    removeCalls,        \* the removeEntity calls of the latest clear(), in order (history)
    intervals,          \* setInterval closures of scheduleRemainingZombies, in scheduling order:
                        \* index (the closure's variable), cleared (clearInterval was called),
                        \* fired (history: how many times the callback has run),
                        \* stale (history: clear() has returned since it was scheduled)
    preload,            \* the preloadZombies calls that got past the player check, in call
                        \* order: pc ("init": awaiting zombie.init, "yielded", "done",
                        \* "failed"), loop index i, and clean (history: the roster was empty
                        \* and no other call was suspended at the call, and no configure,
                        \* clear, activation, timer firing or other preloadZombies call ran
                        \* while it was suspended)
    microtasks,         \* the promise continuations queued, in the order they will run: the
                        \* rest of Zombie.init ("init") and the rest of its awaiting caller
    enemyTypes,         \* EnemyManager.enemyTypes: the Map's values in insertion order
    spawnAreas,         \* EnemyManager.spawnAreas
    totalSpawnWeight,   \* EnemyManager.totalSpawnWeight
    spawnPoint,         \* the value of the latest getSpawnPosition call: the position, the
                        \* index of the area selected (0: none) and the playerPosition argument
    lastOp              \* the operation that produced the current state

vars == <<zombies, player, timers, managerEnabled, enemies, preloadedZombies,
          preloadComplete, config, entities, removeCalls, intervals, preload,
          microtasks, enemyTypes, spawnAreas, totalSpawnWeight, spawnPoint, lastOp>>

agentVars == <<zombies, player, timers, lastOp>>
catalogVars == <<enemyTypes, spawnAreas, totalSpawnWeight, spawnPoint>>
managerVars == <<managerEnabled, enemies, preloadedZombies, preloadComplete, config,
                 entities, removeCalls, intervals, preload, microtasks, catalogVars>>

----------------------------------------------------------------------------
(* Bounds of the model *)

\* simulated time (fortieths of a second) an agent is ticked for, per specification
MaxTime == 100
MaxPerceptionTime == 35
MaxGraceTime == 360
MaxFarTime == 250
MaxSpawned == 2
MaxLifecycleAgents == 2
MaxLifecycleTime == 60
MaxPursuitTime == 25
MaxDraw == 5
\* takeDamage is not called when it would bring health below -MaxOverkill
MaxOverkill == 150
\* idle yaw drift is kept within +-MaxYawDrift yaw units (three random turns of pi/24)
MaxYawDrift == 384

\* Zombie objects ever constructed
MaxZombies == 5
\* config.initialActiveCount and config.activationRate range up to these
MaxInitialActive == 3
MaxActivationRate == 3

\* activatePreloadedZombies calls made, and the longest active roster followed
MaxActivations == 2
\* agents a run of the preload specification constructs
MaxConstructed == 2
MaxRoster == 3
\* the longest active roster followed in a run of the preload specification
MaxPreloadRoster == 2

ZombieIds == 1..MaxZombies
\* configurations of the manager specifications
PopulationSizes == {2}
PreloadSizes == {1, 2}
InitialCounts == {1}
ActivationRates == {1}
\* where preloaded agents are placed (a default spawn position, 30 to 80 units out)
SpawnCoords == {5050}
\* frame lengths (fortieths of a second; multiples of 1/8 s) of the agent specifications
CombatTicks == {10, 20}
PerceptionTicks == {5, 10, 15}
GraceTicks == {20, 40}
FarTicks == {15, 25}
\* the typeId arguments of spawnZombie: omitted (the default parameter then makes
\* it 'standard'), a type of the map data and one that is never registered
SpawnTypeIds == <<"", "runner", "ghost">>
\* enemyTypes lists of map data; a field of 0 is a field the map leaves out
TypeData(id, weight, health) ==
    [id |-> id, weight |-> weight, health |-> health, speed |-> 0, damage |-> 0,
     detectionRange |-> 0]
TypeLists ==
    << <<TypeData("runner", 2, 50), TypeData("tank", 0, 300)>>,
       <<TypeData("standard", 3, 0), TypeData("runner", 1, 50)>>,
       <<>> >>
\* the types of the example map that SpecLifecycle uses: 'runner' has its own damage
LifecycleTypes ==
    <<TypeData("standard", 3, 0), [TypeData("runner", 1, 70) EXCEPT !.damage = 15]>>
LifecycleCoords == {180, 250}
PursuitBodyCoords == {1550, 1500}
PursuitPlayerCoords == {50, 3100}
LifecycleTicks == {20}
\* spawnAreas lists of map data
Point(x, y, z) == [x |-> x, y |-> y, z |-> z]
Area(id, type, weight, center, radius, sizeX, sizeZ) ==
    [id |-> id, type |-> type, weight |-> weight, minDistance |-> 0, maxDistance |-> 0,
     center |-> center, radius |-> radius, size |-> [x |-> sizeX, z |-> sizeZ]]
AreaData(id, weight) == Area(id, "", weight, Point(0, 0, 0), 0, 0, 0)
AreaLists ==
    << <<AreaData("north", 2), AreaData("east", 1), AreaData("south", 1), AreaData("west", 1)>>,
       <<AreaData("pit", -2), AreaData("gate", 1)>>,
       <<AreaData("yard", 0), Area("hall", "rectangle", 3, Point(0, 0, 0), 0, 0, 0)>>,
       <<>> >>
\* spawnAreas lists for sampling: a circle and a rectangle off the origin; a
\* circle without a radius and an area of a type the manager does not know
SamplerAreaLists ==
    << <<Area("north", "circle", 2, Point(0, 0, -5000), 2000, 0, 0),
         Area("hall", "rectangle", 1, Point(5000, 100, 0), 0, 6000, 4000)>>,
       <<Area("yard", "", 1, Point(0, 200, 0), 0, 0, 0),
         Area("maze", "polygon", 1, Point(0, 300, 0), 1000, 0, 0)>>,
       <<>> >>
\* playerPosition arguments of getSpawnPosition
PlayerPoints == {Point(0, 0, 0), Point(5000, 100, -2000)}
\* Math.random() takes the values k / RandomSteps, k in 0 .. RandomSteps - 1
RandomSteps == 4
RandomDraws == 0..(RandomSteps - 1)
\* Math.random() * Math.PI * 2 takes the angles whose cosine and sine are these
\* fifths (multiples of 90 degrees and the angles of the 3-4-5 triangle)
Angles ==
    << [cos |-> 5, sin |-> 0], [cos |-> 3, sin |-> 4], [cos |-> 0, sin |-> 5],
       [cos |-> -4, sin |-> 3], [cos |-> -5, sin |-> 0], [cos |-> -3, sin |-> -4],
       [cos |-> 0, sin |-> -5], [cos |-> 4, sin |-> -3] >>
DrawRange == -MaxDraw..MaxDraw
DamageAmounts == {50, 150}
\* positions of the agent's physics body and of the player along the axis:
\* distances 130, 180 (= attackRange), 200, 250 (> 1.2 attackRange), 1500
\* (= default detectionRange), 1550, 5000 (= farDistance), 5050
BodyCoords == {180, 250, 1550}
PerceptionBodyCoords == {180, 1550, 5050}
GraceBodyCoords == {1550}
PlayerCoords == {0, 50}
\* an agent spawned 90 units out: the player within its detection range (7600),
\* exactly at veryFarDistance (1000) and beyond it (0)
FarBodyCoords == {9000, 9100}
FarPlayerCoords == {0, 1000, 7600}
\* detectionRange values an archetype may configure
DetectionRanges == {1500, 6000}
\* idle drift draws (Math.random() - 0.5) * 0.5, at most 0.25 rad (244 yaw units)
\* either way: 0 stands for Math.random() >= 0.01
YawDrifts == {-128, 0, 128}

----------------------------------------------------------------------------
(* Program constants *)

attackRange == 180
attackCooldown == 48
perceptionUpdateRate == 8
farDistance == 5000
veryFarDistance == 8000
turnSpeed == 4
chaseSpeed == 300
chaseTimeout == 320
farUpdatePeriod == 120
farUpdateWindow == 4
Pi == 3072
playerDamage == 20
defaultHealth == 100
defaultDamage == 20
defaultDetectionRange == 1500
defaultWeight == 1
defaultMinDistance == 3000
defaultMaxDistance == 8000
defaultRadius == 3000
defaultSize == 6000
minSpawnDistance == 3000
spawnDistanceSpan == 5000
defaultSpeed == 3
preloadYieldEvery == 10

NoZombie == [exists |-> FALSE]
NoPosition == <<>>

Abs(x) == IF x < 0 THEN -x ELSE x

\* Vector3.distanceTo along the axis
distanceTo(a, b) == Abs(a - b)

\* `v || d` of JavaScript on numbers
OrDefault(v, d) == IF v = 0 THEN d ELSE v

\* position.distanceTo(player.position); callers test p.exists first (no player: Infinity)
distanceToPlayer(z, p) == distanceTo(z.position, p.position)

----------------------------------------------------------------------------
(* Zombie *)

\* constructor(engine, position, properties)
NewZombie(pos, props) ==
    [exists |-> TRUE,
     zombieType |-> IF props.type = "" THEN "standard" ELSE props.type,
     position |-> pos,
     rotationY |-> 0,
     enabled |-> TRUE,
     isAlive |-> TRUE,
     bodyPosition |-> pos,
     bodyVelocity |-> 0,
     state |-> "idle",
     timeInCurrentState |-> 0,
     timeSinceSpawn |-> 0,
     canSeePlayer |-> FALSE,
     detectionRange |-> OrDefault(props.detectionRange, defaultDetectionRange),
     updatePerceptionTime |-> 0,
     lastKnownPlayerPosition |-> NoPosition,
     health |-> OrDefault(props.health, defaultHealth),
     attackDamage |-> OrDefault(props.damage, defaultDamage),
     lastAttackTime |-> 0,
     attacksTriggered |-> 0,
     visual |-> "none",
     skipAnimationWhenFar |-> FALSE,
     skipPhysicsWhenVeryFar |-> FALSE,
     awaitedBy |-> "none",
     typeArg |-> 0,
     enteredFrom |-> "none",
     missedPeriods |-> 0]

changeState(z, newState) ==
    IF newState = z.state THEN z
    ELSE [z EXCEPT !.state = newState,
                   !.enteredFrom = z.state,
                   !.timeInCurrentState = 0,
                   !.isAlive = IF newState = "death" THEN FALSE ELSE @,
                   !.bodyVelocity = IF newState \in {"idle", "attack", "death"} THEN 0 ELSE @]

onPlayerSpotted(z) == changeState(z, "chase")

updatePerception_NeverSees(z, deltaTime, p) ==
    LET t == z.updatePerceptionTime - deltaTime IN
    IF t <= 0
    THEN [z EXCEPT !.updatePerceptionTime = perceptionUpdateRate,
                   !.canSeePlayer = FALSE]
    ELSE [z EXCEPT !.updatePerceptionTime = t]

updatePerception_KeepsStaleSight(z, deltaTime, p) ==
    LET t == z.updatePerceptionTime - deltaTime IN
    IF t <= 0
    THEN LET z1 == [z EXCEPT !.updatePerceptionTime = perceptionUpdateRate]
         IN  IF ~p.exists THEN z1
             ELSE IF distanceToPlayer(z, p) <= z.detectionRange
                  THEN LET z2 == [z1 EXCEPT !.canSeePlayer = TRUE]
                       IN  IF ~z.canSeePlayer /\ z.state = "idle"
                           THEN onPlayerSpotted(z2) ELSE z2
                  ELSE z1
    ELSE [z EXCEPT !.updatePerceptionTime = t]

updatePerception_AlwaysSees(z, deltaTime, p) ==
    LET t == z.updatePerceptionTime - deltaTime IN
    IF t <= 0
    THEN LET z1 == [z EXCEPT !.updatePerceptionTime = perceptionUpdateRate,
                             !.canSeePlayer = p.exists]
         IN  IF p.exists /\ ~z.canSeePlayer /\ z.state = "idle"
             THEN onPlayerSpotted(z1) ELSE z1
    ELSE [z EXCEPT !.updatePerceptionTime = t]

updatePerception(z, deltaTime, p) ==
    LET t == z.updatePerceptionTime - deltaTime IN
    IF t <= 0
    THEN LET z1 == [z EXCEPT !.updatePerceptionTime = perceptionUpdateRate,
                             !.canSeePlayer = FALSE]
         IN  IF ~p.exists THEN z1
             ELSE IF distanceToPlayer(z, p) <= z.detectionRange
                  THEN LET z2 == [z1 EXCEPT !.canSeePlayer = TRUE]
                       IN  IF ~z.canSeePlayer /\ z.state = "idle"
                           THEN onPlayerSpotted(z2) ELSE z2
                  ELSE z1
    ELSE [z EXCEPT !.updatePerceptionTime = t]

\* Math.atan2(direction.x, direction.z) for a direction along the x axis: +-pi/2 or 0
yawToward(from, to) ==
    IF to > from THEN Pi \div 2 ELSE IF to < from THEN -(Pi \div 2) ELSE 0

lookAt(z, targetPos) == [z EXCEPT !.rotationY = yawToward(z.position, targetPos)]

\* the yaw brought into [-pi, pi] by the while loops of processChaseState
RECURSIVE normalizeYaw(_)
normalizeYaw(a) ==
    IF a > Pi THEN normalizeYaw(a - 2 * Pi)
    ELSE IF a < -Pi THEN normalizeYaw(a + 2 * Pi)
    ELSE a

\* rotDiff * Math.min(turnSpeed * deltaTime, 1.0), deltaTime in fortieths of a second
turnStep(rotDiff, deltaTime) ==
    LET f == IF turnSpeed * deltaTime < 40 THEN turnSpeed * deltaTime ELSE 40
        n == rotDiff * f
    IN  IF n >= 0 THEN n \div 40 ELSE -((-n) \div 40)

processIdleState(z, drift) == [z EXCEPT !.rotationY = @ + drift]

processChaseState(z, deltaTime, p) ==
    IF ~p.exists THEN z
    ELSE
    LET z1 == IF z.canSeePlayer
              THEN [z EXCEPT !.lastKnownPlayerPosition = <<p.position>>] ELSE z
        timeout(w) == IF ~w.canSeePlayer /\ w.timeInCurrentState > chaseTimeout
                      THEN changeState(w, "idle") ELSE w
    IN  IF z1.lastKnownPlayerPosition # NoPosition
        THEN IF distanceToPlayer(z1, p) <= attackRange
             THEN changeState(z1, "attack")
             ELSE LET target == yawToward(z1.position, p.position)
                      d0 == normalizeYaw(target) - normalizeYaw(z1.rotationY)
                      d1 == IF d0 > Pi THEN d0 - 2 * Pi ELSE d0
                      rotDiff == IF d1 < -Pi THEN d1 + 2 * Pi ELSE d1
                  IN  timeout([z1 EXCEPT !.rotationY = @ + turnStep(rotDiff, deltaTime),
                                         !.bodyVelocity = chaseSpeed])
        ELSE timeout(z1)

processAttackState_NoCooldown(z, deltaTime, p) ==
    IF ~p.exists THEN z
    ELSE IF distanceToPlayer(z, p) > (attackRange * 12) \div 10
    THEN changeState(z, "chase")
    ELSE LET z1 == lookAt(z, p.position) IN
         [z1 EXCEPT !.lastAttackTime = z1.timeSinceSpawn,
                    !.attacksTriggered = @ + 1]

processAttackState_NoHysteresis(z, deltaTime, p) ==
    IF ~p.exists THEN z
    ELSE IF distanceToPlayer(z, p) > attackRange
    THEN changeState(z, "chase")
    ELSE LET z1 == lookAt(z, p.position) IN
         IF z1.timeSinceSpawn - z1.lastAttackTime > attackCooldown
         THEN [z1 EXCEPT !.lastAttackTime = z1.timeSinceSpawn,
                         !.attacksTriggered = @ + 1]
         ELSE z1

processAttackState(z, deltaTime, p) ==
    IF ~p.exists THEN z
    ELSE IF distanceToPlayer(z, p) > (attackRange * 12) \div 10
    THEN changeState(z, "chase")
    ELSE LET z1 == lookAt(z, p.position) IN
         IF z1.timeSinceSpawn - z1.lastAttackTime > attackCooldown
         THEN [z1 EXCEPT !.lastAttackTime = z1.timeSinceSpawn,
                         !.attacksTriggered = @ + 1]
         ELSE z1

processStateMachine(z, deltaTime, p, drift) ==
    LET z0 == IF z.state = "idle" /\ z.canSeePlayer THEN changeState(z, "chase") ELSE z
    IN  CASE z0.state = "idle" -> processIdleState(z0, drift)
          [] z0.state = "chase" -> processChaseState(z0, deltaTime, p)
          [] z0.state = "attack" -> processAttackState(z0, deltaTime, p)
          [] OTHER -> z0

\* history: the 3-second marks passed when timeSinceSpawn goes from t0 to t1
periodsCrossed(t0, t1) == (t1 \div farUpdatePeriod) - (t0 \div farUpdatePeriod)

update_AlwaysPullsPosition(z, deltaTime, p, drift) ==
    IF ~z.enabled \/ ~z.isAlive THEN z
    ELSE
    LET z1 == [z EXCEPT !.timeSinceSpawn = @ + deltaTime,
                        !.timeInCurrentState = @ + deltaTime]
        far == z1.skipAnimationWhenFar
                  /\ (~p.exists \/ distanceToPlayer(z1, p) > farDistance)
        advanced == [processStateMachine(updatePerception(z1, deltaTime, p),
                                         deltaTime, p, drift)
                        EXCEPT !.missedPeriods = 0]
        z2 == IF far
              THEN IF z1.timeSinceSpawn % farUpdatePeriod < farUpdateWindow
                   THEN advanced
                   ELSE [z1 EXCEPT !.missedPeriods =
                                      @ + periodsCrossed(z.timeSinceSpawn, z1.timeSinceSpawn)]
              ELSE advanced
    IN  [z2 EXCEPT !.position = z2.bodyPosition]

update_NoAliveCheck(z, deltaTime, p, drift) ==
    IF ~z.enabled THEN z
    ELSE
    LET z1 == [z EXCEPT !.timeSinceSpawn = @ + deltaTime,
                        !.timeInCurrentState = @ + deltaTime]
        far == z1.skipAnimationWhenFar
                  /\ (~p.exists \/ distanceToPlayer(z1, p) > farDistance)
        veryFar == z1.skipPhysicsWhenVeryFar
                      /\ (~p.exists \/ distanceToPlayer(z1, p) > veryFarDistance)
        advanced == [processStateMachine(updatePerception(z1, deltaTime, p),
                                         deltaTime, p, drift)
                        EXCEPT !.missedPeriods = 0]
        z2 == IF far
              THEN IF z1.timeSinceSpawn % farUpdatePeriod < farUpdateWindow
                   THEN advanced
                   ELSE [z1 EXCEPT !.missedPeriods =
                                      @ + periodsCrossed(z.timeSinceSpawn, z1.timeSinceSpawn)]
              ELSE advanced
    IN  IF veryFar THEN z2 ELSE [z2 EXCEPT !.position = z2.bodyPosition]

update(z, deltaTime, p, drift) ==
    IF ~z.enabled \/ ~z.isAlive THEN z
    ELSE
    LET z1 == [z EXCEPT !.timeSinceSpawn = @ + deltaTime,
                        !.timeInCurrentState = @ + deltaTime]
        far == z1.skipAnimationWhenFar
                  /\ (~p.exists \/ distanceToPlayer(z1, p) > farDistance)
        veryFar == z1.skipPhysicsWhenVeryFar
                      /\ (~p.exists \/ distanceToPlayer(z1, p) > veryFarDistance)
        advanced == [processStateMachine(updatePerception(z1, deltaTime, p),
                                         deltaTime, p, drift)
                        EXCEPT !.missedPeriods = 0]
        z2 == IF far
              THEN IF z1.timeSinceSpawn % farUpdatePeriod < farUpdateWindow
                   THEN advanced
                   ELSE [z1 EXCEPT !.missedPeriods =
                                      @ + periodsCrossed(z.timeSinceSpawn, z1.timeSinceSpawn)]
              ELSE advanced
    IN  IF veryFar THEN z2 ELSE [z2 EXCEPT !.position = z2.bodyPosition]

takeDamage_StrictlyBelow(z, amount) ==
    LET z1 == [z EXCEPT !.health = @ - amount] IN
    IF z1.health < 0 /\ z1.isAlive THEN changeState(z1, "death") ELSE z1

takeDamage(z, amount) ==
    LET z1 == [z EXCEPT !.health = @ - amount] IN
    IF z1.health <= 0 /\ z1.isAlive THEN changeState(z1, "death") ELSE z1

----------------------------------------------------------------------------
(* The engine around one agent: frames, physics, the player, timers *)

\* the agents whose init() an async caller (preloadZombies or spawnZombie) is
\* awaiting
Awaiting == {i \in ZombieIds : zombies[i].exists /\ zombies[i].awaitedBy # "none"}

\* a queued continuation: of Zombie.init after `await this.loadModel()` (kind
\* "init"), or of the caller after `await zombie.init()` (kind "preloadZombies"
\* or "spawnZombie"); id is the agent, call the preloadZombies call or the
\* typeId argument of spawnZombie
Continuation(kind, id, call) == [kind |-> kind, id |-> id, call |-> call]

\* timers fire only once every queued continuation has run
microtasksPending == microtasks # <<>>

\* the continuation that runs next is of this kind
nextContinuation(kind) == microtasks # <<>> /\ Head(microtasks).kind = kind

DamageTimer(i) == [kind |-> "damage", id |-> i]
ReturnTimer(i) == [kind |-> "return", id |-> i]
\* the setTimeout(resolve, 0) of the preloadZombies call c
YieldTimer(c) == [kind |-> "yield", id |-> c]

Op(name, i, n) == [op |-> name, id |-> i, n |-> n]

RemoveAt(s, k) == SubSeq(s, 1, k - 1) \o SubSeq(s, k + 1, Len(s))

\* the two setTimeout calls of an attack trigger (Zombie.js lines 499 and 509)
scheduleAttackTimers(q, i) == q \o <<DamageTimer(i), ReturnTimer(i)>>

\* the 500 ms callback: player.takeDamage(20, this) under its re-check
damageApplies_NoStateCheck(z, p) == distanceToPlayer(z, p) <= attackRange

damageApplies_NoRangeCheck(z, p) == z.state = "attack"

damageApplies(z, p) ==
    z.state = "attack" /\ distanceToPlayer(z, p) <= attackRange

\* the 1200 ms callback
returnToChase_NoCheck(z) == changeState(z, "chase")

returnToChase(z) == IF z.state = "attack" THEN changeState(z, "chase") ELSE z

\* EntityManager calls update(deltaTime) on a registered entity
Tick(i, deltaTime, drift, maxTime) ==
    /\ zombies[i].exists
    /\ \E k \in 1..Len(entities) : entities[k] = i
    /\ zombies[i].timeSinceSpawn + deltaTime <= maxTime
    /\ Abs(zombies[i].rotationY + drift) <= MaxYawDrift \/ drift = 0
    /\ LET z == update(zombies[i], deltaTime, player, drift) IN
       /\ zombies' = [zombies EXCEPT ![i] = z]
       /\ timers' = IF z.attacksTriggered > zombies[i].attacksTriggered
                    THEN scheduleAttackTimers(timers, i) ELSE timers
    /\ lastOp' = Op("update", i, 0)
    /\ UNCHANGED <<player, managerVars>>

\* the physics solver moves the body (PhysicsService is a black box)
PhysicsStep(i, pos) ==
    /\ zombies[i].exists
    /\ pos # zombies[i].bodyPosition
    /\ zombies' = [zombies EXCEPT ![i].bodyPosition = pos]
    /\ lastOp' = Op("environment", 0, 0)
    /\ UNCHANGED <<player, timers, managerVars>>

MovePlayer(pos) ==
    /\ player.exists
    /\ pos # player.position
    /\ player' = [player EXCEPT !.position = pos]
    /\ lastOp' = Op("environment", 0, 0)
    /\ UNCHANGED <<zombies, timers, managerVars>>

\* a hit on the agent: zombie.takeDamage(amount)
TakeDamage(i, amount) ==
    /\ zombies[i].exists
    /\ zombies[i].health - amount >= -MaxOverkill
    /\ zombies' = [zombies EXCEPT ![i] = takeDamage(@, amount)]
    /\ lastOp' = Op("takeDamage", i, amount)
    /\ UNCHANGED <<player, timers, managerVars>>

\* a damage timer (500 ms) fires once every damage timer and every yield
\* (0 ms) scheduled before it has fired
FireDamage(k) ==
    /\ k \in 1..Len(timers)
    /\ ~microtasksPending
    /\ timers[k].kind = "damage"
    /\ \A j \in 1..(k - 1) : timers[j].kind = "return"
    /\ LET i == timers[k].id
           hit == damageApplies(zombies[i], player)
       IN  /\ player' = IF hit
                        THEN [player EXCEPT !.hits = @ + 1,
                                            !.lastAmount = playerDamage,
                                            !.lastSource = i]
                        ELSE player
           /\ lastOp' = Op("damageCallback", i, IF hit THEN 1 ELSE 0)
    /\ timers' = RemoveAt(timers, k)
    /\ UNCHANGED <<zombies, managerVars>>

\* a return timer fires once every timer scheduled before it has fired
FireReturn ==
    /\ Len(timers) > 0
    /\ ~microtasksPending
    /\ timers[1].kind = "return"
    /\ LET i == timers[1].id IN
       /\ zombies' = [zombies EXCEPT ![i] = returnToChase(@)]
       /\ lastOp' = Op("returnCallback", i, 0)
    /\ timers' = Tail(timers)
    /\ UNCHANGED <<player, managerVars>>

NewPlayer(pos) ==
    [exists |-> TRUE, position |-> pos, hits |-> 0, lastAmount |-> 0, lastSource |-> 0]

standardType(dr) ==
    [type |-> "standard", health |-> 100, speed |-> 3, damage |-> 20, detectionRange |-> dr]

----------------------------------------------------------------------------
(* EnemyManager *)

Min(a, b) == IF a < b THEN a ELSE b

\* the ids of s[from..to], as a set
Ids(s, from, to) == {s[k] : k \in from..to}

\* new Zombie(...) takes the next unused id
NextId == Cardinality({i \in ZombieIds : zombies[i].exists}) + 1

\* Math.min(config.initialActiveCount, preloadedZombies.length)
initialCount_OffByOne(cfg, n) == Min(cfg.initialActiveCount + 1, n)

initialCount(cfg, n) == Min(cfg.initialActiveCount, n)

\* how many agents one firing of the activation timer enables: the loop
\* "i < activationRate && index < preloadedZombies.length"
batchCount_OffByOne(rate, index, n) ==
    IF index >= n THEN 0 ELSE Min(IF rate + 1 < 0 THEN 0 ELSE rate + 1, n - index)

batchCount(rate, index, n) ==
    IF index >= n THEN 0 ELSE Min(IF rate < 0 THEN 0 ELSE rate, n - index)

\* zombie.enabled = true; addEntity(zombie); enemies.push(zombie) for
\* preloadedZombies[from + 1 .. from + count] (0-based indices from .. from + count - 1)
activateRange_NoEnable(from, count) ==
    /\ zombies' = zombies
    /\ entities' = entities \o SubSeq(preloadedZombies, from + 1, from + count)
    /\ enemies' = enemies \o SubSeq(preloadedZombies, from + 1, from + count)

activateRange(from, count) ==
    /\ zombies' = [id \in ZombieIds |->
                      IF id \in Ids(preloadedZombies, from + 1, from + count)
                      THEN [zombies[id] EXCEPT !.enabled = TRUE] ELSE zombies[id]]
    /\ entities' = entities \o SubSeq(preloadedZombies, from + 1, from + count)
    /\ enemies' = enemies \o SubSeq(preloadedZombies, from + 1, from + count)

\* the preloadZombies call is suspended at `await zombie.init()` or at its yield
suspended(call) == call.pc \in {"init", "yielded"}

\* history: something ran while preloadZombies calls were suspended
disturbed(pl) ==
    [c \in 1..Len(pl) |-> IF suspended(pl[c]) THEN [pl[c] EXCEPT !.clean = FALSE] ELSE pl[c]]

scheduleRemainingZombies(startIndex) ==
    intervals' = Append(intervals, [index |-> startIndex, cleared |-> FALSE, fired |-> 0,
                                    stale |-> FALSE])

activatePreloadedZombies ==
    LET count == initialCount(config, Len(preloadedZombies)) IN
    /\ activateRange(0, count)
    /\ scheduleRemainingZombies(count)
    /\ lastOp' = Op("activatePreloadedZombies", 0, count)
    /\ preload' = disturbed(preload)
    /\ UNCHANGED microtasks
    /\ UNCHANGED <<player, timers, managerEnabled, preloadedZombies, preloadComplete,
                   config, removeCalls, catalogVars>>

IntervalFire_NoCancel(k) ==
    /\ k \in 1..Len(intervals)
    /\ ~intervals[k].cleared
    /\ ~microtasksPending
    /\ LET index == intervals[k].index
           n == Len(preloadedZombies)
           count == batchCount(config.activationRate, index, n)
       IN  IF index >= n
           THEN /\ intervals' = [intervals EXCEPT ![k].fired = @ + 1]
                /\ intervals[k].fired < MaxZombies
                /\ lastOp' = Op("activationTimer", k, 0)
                /\ UNCHANGED <<zombies, entities, enemies>>
           ELSE /\ activateRange(index, count)
                /\ intervals' = [intervals EXCEPT ![k].index = index + count,
                                                  ![k].fired = @ + 1]
                /\ lastOp' = Op("activationTimer", k, count)
    /\ preload' = disturbed(preload)
    /\ UNCHANGED microtasks
    /\ UNCHANGED <<player, timers, managerEnabled, preloadedZombies, preloadComplete,
                   config, removeCalls, catalogVars>>

\* the setInterval callback of the k-th scheduleRemainingZombies call fires
IntervalFire(k) ==
    /\ k \in 1..Len(intervals)
    /\ ~intervals[k].cleared
    /\ ~microtasksPending
    /\ LET index == intervals[k].index
           n == Len(preloadedZombies)
           count == batchCount(config.activationRate, index, n)
       IN  IF index >= n
           THEN /\ intervals' = [intervals EXCEPT ![k].cleared = TRUE, ![k].fired = @ + 1]
                /\ lastOp' = Op("activationTimer", k, 0)
                /\ UNCHANGED <<zombies, entities, enemies>>
           ELSE /\ activateRange(index, count)
                /\ intervals' = [intervals EXCEPT ![k].index = index + count,
                                                  ![k].fired = @ + 1]
                /\ lastOp' = Op("activationTimer", k, count)
    /\ preload' = disturbed(preload)
    /\ UNCHANGED microtasks
    /\ UNCHANGED <<player, timers, managerEnabled, preloadedZombies, preloadComplete,
                   config, removeCalls, catalogVars>>

\* the enemies whose isAlive is true, in order
aliveOnly_DropsLast(s) ==
    SelectSeq(SubSeq(s, 1, Len(s) - 1), LAMBDA id : zombies[id].isAlive)

aliveOnly(s) == SelectSeq(s, LAMBDA id : zombies[id].isAlive)

ManagerUpdate_NoPreloadCheck ==
    /\ enemies' = IF managerEnabled THEN aliveOnly(enemies) ELSE enemies
    /\ lastOp' = Op("managerUpdate", 0, 0)
    /\ UNCHANGED <<zombies, player, timers, managerEnabled, preloadedZombies,
                   preloadComplete, config, entities, removeCalls, intervals, preload,
                   microtasks, catalogVars>>

\* EnemyManager.update(deltaTime)
ManagerUpdate ==
    /\ enemies' = IF managerEnabled /\ preloadComplete THEN aliveOnly(enemies) ELSE enemies
    /\ lastOp' = Op("managerUpdate", 0, 0)
    /\ UNCHANGED <<zombies, player, timers, managerEnabled, preloadedZombies,
                   preloadComplete, config, entities, removeCalls, intervals, preload,
                   microtasks, catalogVars>>

Range(s) == {s[k] : k \in 1..Len(s)}

\* entityManager.removeEntity(e) for every e of s: the registry no longer holds them
removeEntity(registry, s) == SelectSeq(registry, LAMBDA e : e \notin Range(s))

\* EnemyManager.clear(); the pending intervals are left as they are
clear ==
    /\ removeCalls' = enemies
    /\ entities' = removeEntity(entities, enemies)
    /\ enemies' = <<>>
    /\ preloadedZombies' = <<>>
    /\ preloadComplete' = FALSE
    /\ intervals' = [k \in 1..Len(intervals) |-> [intervals[k] EXCEPT !.stale = TRUE]]
    /\ preload' = disturbed(preload)
    /\ UNCHANGED microtasks
    /\ lastOp' = Op("clear", 0, Len(enemies))
    /\ UNCHANGED <<zombies, player, timers, managerEnabled, config, catalogVars>>

\* Map.set(rec.id, rec): an existing key keeps its place, a new key goes last
mapSet(m, rec) ==
    IF \E k \in 1..Len(m) : m[k].id = rec.id
    THEN [k \in 1..Len(m) |-> IF m[k].id = rec.id THEN rec ELSE m[k]]
    ELSE Append(m, rec)

\* the type definition configure() builds from one entry of config.enemyTypes;
\* a field that is missing or 0 takes its default ("x || default")
enemyTypeOf(typeData) ==
    [id |-> typeData.id,
     weight |-> OrDefault(typeData.weight, defaultWeight),
     health |-> OrDefault(typeData.health, defaultHealth),
     speed |-> OrDefault(typeData.speed, defaultSpeed),
     damage |-> OrDefault(typeData.damage, defaultDamage),
     detectionRange |-> OrDefault(typeData.detectionRange, defaultDetectionRange)]

\* the loop of configure(): enemyTypes.set for every entry, in order
RECURSIVE setEnemyTypes(_, _)
setEnemyTypes(m, data) ==
    IF data = <<>> THEN m
    ELSE setEnemyTypes(mapSet(m, enemyTypeOf(Head(data))), Tail(data))

\* registerDefaultEnemyTypes(): enemyTypes.set('standard', ...)
registerDefaultEnemyTypes(m) ==
    mapSet(m, [id |-> "standard", weight |-> defaultWeight, health |-> defaultHealth,
               speed |-> defaultSpeed, damage |-> defaultDamage,
               detectionRange |-> defaultDetectionRange])

\* EnemyManager.init()
init ==
    /\ enemyTypes' = registerDefaultEnemyTypes(enemyTypes)
    /\ lastOp' = Op("init", 0, 0)
    /\ UNCHANGED <<zombies, player, timers, managerEnabled, enemies, preloadedZombies,
                   preloadComplete, config, entities, removeCalls, intervals, preload,
                   microtasks, spawnAreas, totalSpawnWeight, spawnPoint>>

\* EnemyManager.configure(cfg): cfg is merged onto the current configuration; a
\* non-empty cfg.enemyTypes replaces the registered types
configure(cfg) ==
    /\ config' = [k \in DOMAIN config |-> IF k \in DOMAIN cfg THEN cfg[k] ELSE config[k]]
    /\ enemyTypes' = IF "enemyTypes" \in DOMAIN cfg /\ Len(cfg.enemyTypes) > 0
                     THEN setEnemyTypes(<<>>, cfg.enemyTypes)
                     ELSE enemyTypes
    /\ <<config', enemyTypes'>> # <<config, enemyTypes>>
    /\ preload' = disturbed(preload)
    /\ UNCHANGED microtasks
    /\ lastOp' = Op("configure", 0, 0)
    /\ UNCHANGED <<zombies, player, timers, managerEnabled, enemies, preloadedZombies,
                   preloadComplete, entities, removeCalls, intervals, spawnAreas,
                   totalSpawnWeight, spawnPoint>>

\* the area configureSpawnAreas() builds from one entry of the map data
spawnAreaOf(areaData) ==
    LET type == IF areaData.type = "" THEN "circle" ELSE areaData.type IN
    [id |-> areaData.id,
     type |-> type,
     weight |-> OrDefault(areaData.weight, defaultWeight),
     minDistance |-> OrDefault(areaData.minDistance, defaultMinDistance),
     maxDistance |-> OrDefault(areaData.maxDistance, defaultMaxDistance),
     center |-> IF type \in {"circle", "rectangle"} THEN areaData.center ELSE Point(0, 0, 0),
     radius |-> IF type = "circle" THEN OrDefault(areaData.radius, defaultRadius) ELSE 0,
     size |-> IF type = "rectangle"
              THEN [x |-> OrDefault(areaData.size.x, defaultSize),
                    z |-> OrDefault(areaData.size.z, defaultSize)]
              ELSE [x |-> 0, z |-> 0]]

\* the loop of configureSpawnAreas(): push the area, add its weight to the total
RECURSIVE pushAreas(_, _)
pushAreas(acc, data) ==
    IF data = <<>> THEN acc
    ELSE LET area == spawnAreaOf(Head(data))
         IN  pushAreas([areas |-> Append(acc.areas, area), total |-> acc.total + area.weight],
                       Tail(data))

configureSpawnAreas_NoReset(spawnAreaData, n) ==
    LET acc == pushAreas([areas |-> spawnAreas, total |-> totalSpawnWeight], spawnAreaData)
    IN  /\ spawnAreas' = acc.areas
        /\ totalSpawnWeight' = acc.total
        /\ lastOp' = Op("configureSpawnAreas", 0, n)
        /\ UNCHANGED <<zombies, player, timers, managerEnabled, enemies, preloadedZombies,
                       preloadComplete, config, entities, removeCalls, intervals, preload,
                       microtasks, enemyTypes, spawnPoint>>

\* EnemyManager.configureSpawnAreas(spawnAreaData); n numbers the call's list
configureSpawnAreas(spawnAreaData, n) ==
    LET acc == pushAreas([areas |-> <<>>, total |-> 0], spawnAreaData)
    IN  /\ spawnAreas' = acc.areas
        /\ totalSpawnWeight' = acc.total
        /\ lastOp' = Op("configureSpawnAreas", 0, n)
        /\ UNCHANGED <<zombies, player, timers, managerEnabled, enemies, preloadedZombies,
                       preloadComplete, config, entities, removeCalls, intervals, preload,
                       microtasks, enemyTypes, spawnPoint>>

\* the selection loop shared by selectWeightedSpawnArea and getRandomEnemyType:
\* the index of the first entry with randomValue <= weightSum, and the first
\* entry when the loop ends without one
RECURSIVE weightedWalk(_, _, _, _)
weightedWalk(s, randomValue, k, weightSum) ==
    IF k > Len(s) THEN 1
    ELSE LET sum == weightSum + s[k].weight
         IN  IF randomValue <= sum THEN k ELSE weightedWalk(s, randomValue, k + 1, sum)

\* the selection loop comparing with < in place of <=
selectWeightedSpawnArea_Strict(areas, randomValue) ==
    LET RECURSIVE walk(_, _)
        walk(k, weightSum) ==
            IF k > Len(areas) THEN 1
            ELSE LET sum == weightSum + areas[k].weight
                 IN  IF randomValue < sum THEN k ELSE walk(k + 1, sum)
    IN  walk(1, 0)

selectWeightedSpawnArea(areas, randomValue) == weightedWalk(areas, randomValue, 1, 0)

\* the first loop of getRandomEnemyType: the sum of the weights
RECURSIVE totalWeight(_)
totalWeight(types) ==
    IF types = <<>> THEN 0 ELSE Head(types).weight + totalWeight(Tail(types))

getRandomEnemyType(types, randomValue) == weightedWalk(types, randomValue, 1, 0)

\* Math.random() * total, Math.random() being in [0, 1): a value of [0, total),
\* or of (total, 0] when total is negative. The weights being whole numbers, a
\* draw compares with every running sum as the next whole number above it does,
\* which stands for it here: total stands for the draws just below a positive
\* total, and a negative total itself is never drawn.
Draws(total) == IF total >= 0 THEN 0..total ELSE (total + 1)..0

\* getSpawnPosition() selects an area; without areas it does not
SelectSpawnArea(r) ==
    /\ spawnAreas # <<>>
    /\ r \in Draws(totalSpawnWeight)
    /\ lastOp' = Op("selectWeightedSpawnArea", selectWeightedSpawnArea(spawnAreas, r), r)
    /\ UNCHANGED <<zombies, player, timers, managerVars>>

\* getRandomEnemyType() is called with at least one type registered
DrawEnemyType(r) ==
    /\ enemyTypes # <<>>
    /\ r \in Draws(totalWeight(enemyTypes))
    /\ lastOp' = Op("getRandomEnemyType", getRandomEnemyType(enemyTypes, r), r)
    /\ UNCHANGED <<zombies, player, timers, managerVars>>

\* getDefaultSpawnPosition(playerPosition): angle a, distance 30 + random * 50
getDefaultSpawnPosition_NoMinimum(playerPosition, a, k) ==
    LET distance == (k * spawnDistanceSpan) \div RandomSteps
    IN  Point(playerPosition.x + (Angles[a].cos * distance) \div 5,
              playerPosition.y,
              playerPosition.z + (Angles[a].sin * distance) \div 5)

getDefaultSpawnPosition(playerPosition, a, k) ==
    LET distance == minSpawnDistance + (k * spawnDistanceSpan) \div RandomSteps
    IN  Point(playerPosition.x + (Angles[a].cos * distance) \div 5,
              playerPosition.y,
              playerPosition.z + (Angles[a].sin * distance) \div 5)

\* getPositionInArea(area, playerPosition). Circle: angle a, distanceFromCenter
\* random * radius; rectangle: offsets (random * 2 - 1) * size / 2 on x and z
getPositionInArea_FullSize(area, playerPosition, a, k1, k2) ==
    IF area.type = "circle"
    THEN LET distanceFromCenter == (k1 * area.radius) \div RandomSteps
         IN  Point(area.center.x + (Angles[a].cos * distanceFromCenter) \div 5,
                   area.center.y,
                   area.center.z + (Angles[a].sin * distanceFromCenter) \div 5)
    ELSE IF area.type = "rectangle"
    THEN Point(area.center.x + ((2 * k1 - RandomSteps) * area.size.x) \div RandomSteps,
               area.center.y,
               area.center.z + ((2 * k2 - RandomSteps) * area.size.z) \div RandomSteps)
    ELSE getDefaultSpawnPosition(playerPosition, a, k1)

getPositionInArea(area, playerPosition, a, k1, k2) ==
    IF area.type = "circle"
    THEN LET distanceFromCenter == (k1 * area.radius) \div RandomSteps
         IN  Point(area.center.x + (Angles[a].cos * distanceFromCenter) \div 5,
                   area.center.y,
                   area.center.z + (Angles[a].sin * distanceFromCenter) \div 5)
    ELSE IF area.type = "rectangle"
    THEN Point(area.center.x + ((2 * k1 - RandomSteps) * area.size.x) \div (2 * RandomSteps),
               area.center.y,
               area.center.z + ((2 * k2 - RandomSteps) * area.size.z) \div (2 * RandomSteps))
    ELSE getDefaultSpawnPosition(playerPosition, a, k1)

\* the value of spawnPoint before any getSpawnPosition call
NoSpawnPoint == [position |-> Point(0, 0, 0), area |-> 0, player |-> Point(0, 0, 0)]

\* EnemyManager.getSpawnPosition(playerPosition); r is the draw of the area
\* selection, a, k1 and k2 the draws of the position
GetSpawnPosition(playerPosition, r, a, k1, k2) ==
    /\ IF Len(spawnAreas) = 0
       THEN /\ spawnPoint' = [position |-> getDefaultSpawnPosition(playerPosition, a, k1),
                              area |-> 0, player |-> playerPosition]
            /\ r = 0 /\ k2 = 0
       ELSE LET area == selectWeightedSpawnArea(spawnAreas, r)
            IN  /\ r \in Draws(totalSpawnWeight)
                /\ spawnPoint' = [position |-> getPositionInArea(spawnAreas[area],
                                                                 playerPosition, a, k1, k2),
                                  area |-> area, player |-> playerPosition]
    /\ lastOp' = Op("getSpawnPosition", spawnPoint'.area, r)
    /\ UNCHANGED <<zombies, player, timers, managerEnabled, enemies, preloadedZombies,
                   preloadComplete, config, entities, removeCalls, intervals, preload,
                   microtasks, enemyTypes, spawnAreas, totalSpawnWeight>>

\* enemyTypes.get(typeId): the index of the type, 0 when there is none
typeIndex(types, typeId) ==
    IF \E k \in 1..Len(types) : types[k].id = typeId
    THEN CHOOSE k \in 1..Len(types) : types[k].id = typeId
    ELSE 0

\* the properties new Zombie receives from a type definition
typeProps(t) ==
    [type |-> t.id, health |-> t.health, speed |-> t.speed, damage |-> t.damage,
     detectionRange |-> t.detectionRange]

\* what assetManager.getModel('zombie') returns, and how physics.addBody(body) ends
getModelOutcomes == {"model", "null"}
addBodyOutcomes == {"ok", "PhysicsAttachError"}

\* Zombie.init(engine) up to its await: addBody (called outside any try block)
\* has returned; loadModel has cloned the model, or built the debug mesh when
\* the model is missing
zombieInit(z, model) ==
    [z EXCEPT !.visual = IF model = "model" THEN "model" ELSE "placeholder"]

\* Zombie.init(engine) after its await: optimizeForLargeNumbers, changeState('idle')
zombieInitDone(z) ==
    changeState([z EXCEPT !.skipAnimationWhenFar = TRUE,
                          !.skipPhysicsWhenVeryFar = TRUE], "idle")

\* the continuation of Zombie.init runs: init returns, which queues the
\* continuation of the caller awaiting it
ZombieInitResume ==
    /\ nextContinuation("init")
    /\ LET m == Head(microtasks) IN
       /\ zombies' = [zombies EXCEPT ![m.id] = zombieInitDone(@)]
       /\ microtasks' = Append(Tail(microtasks),
                               Continuation(zombies[m.id].awaitedBy, m.id, m.call))
       /\ lastOp' = Op("zombieInit", m.id, 0)
    /\ UNCHANGED <<player, timers, managerEnabled, enemies, preloadedZombies,
                   preloadComplete, config, entities, removeCalls, intervals, preload,
                   catalogVars>>

\* zombie.enabled = false of the preload loop
preloaded_LeftEnabled(z) == z

preloaded(z) == [z EXCEPT !.enabled = FALSE]

\* the preloadZombies call c from the top of loop pass i, with pl the calls, zs
\* the agents, pz the preloaded roster and mt the queued continuations at that
\* point: past the last pass it returns true; else it draws a type (r) and a
\* position (pos), constructs the agent and calls zombie.init, which suspends
\* it, or whose addBody throws and rejects it
preloadPass(pl, c, zs, pz, mt, i, pos, r, model, physics) ==
    IF i >= config.maxEnemies
    THEN /\ zombies' = zs
         /\ preloadedZombies' = pz
         /\ preloadComplete' = TRUE
         /\ preload' = [pl EXCEPT ![c].pc = "done", ![c].i = i]
         /\ microtasks' = mt
         /\ lastOp' = Op("preloadZombies", c, 1)
    ELSE IF enemyTypes = <<>>
    THEN /\ zombies' = zs
         /\ preloadedZombies' = pz
         /\ preload' = [pl EXCEPT ![c].pc = "failed", ![c].i = i]
         /\ microtasks' = mt
         /\ lastOp' = Op("preloadRejected", 0, i)
         /\ UNCHANGED preloadComplete
    ELSE /\ NextId \in ZombieIds
         /\ r \in Draws(totalWeight(enemyTypes))
         /\ LET z == NewZombie(pos, typeProps(enemyTypes[getRandomEnemyType(enemyTypes, r)]))
            IN  IF physics = "ok"
                THEN /\ zombies' = [zs EXCEPT ![NextId] =
                                       [zombieInit(z, model) EXCEPT
                                           !.awaitedBy = "preloadZombies"]]
                     /\ preload' = [pl EXCEPT ![c].pc = "init", ![c].i = i]
                     /\ microtasks' = Append(mt, Continuation("init", NextId, c))
                     /\ lastOp' = Op("preloadAwait", NextId, i)
                ELSE /\ zombies' = [zs EXCEPT ![NextId] = z]
                     /\ preload' = [pl EXCEPT ![c].pc = "failed", ![c].i = i]
                     /\ microtasks' = mt
                     /\ lastOp' = Op("preloadRejected", NextId, i)
         /\ preloadedZombies' = pz
         /\ UNCHANGED preloadComplete

\* the calls after a new call of preloadZombies has passed the player check
called(pl, pz) ==
    Append(disturbed(pl),
           [pc |-> "init", i |-> 0,
            clean |-> pz = <<>> /\ \A c \in 1..Len(pl) : ~suspended(pl[c])])

\* preloadZombies() is called (whether or not an earlier call is suspended): it
\* returns false without a player, and otherwise runs to the await of its
\* first pass
PreloadCall_NoPlayerCheck(pos, r, model, physics) ==
    /\ preloadPass(called(preload, preloadedZombies), Len(preload) + 1, zombies,
                   preloadedZombies, microtasks, 0, pos, r, model, physics)
    /\ UNCHANGED <<player, timers, managerEnabled, enemies, config, entities, removeCalls,
                   intervals, catalogVars>>

PreloadCall(pos, r, model, physics) ==
    /\ IF ~player.exists
       THEN /\ lastOp' = Op("preloadZombies", 0, 0)
            /\ UNCHANGED <<zombies, preloadedZombies, preloadComplete, preload, microtasks>>
       ELSE preloadPass(called(preload, preloadedZombies), Len(preload) + 1, zombies,
                        preloadedZombies, microtasks, 0, pos, r, model, physics)
    /\ UNCHANGED <<player, timers, managerEnabled, enemies, config, entities, removeCalls,
                   intervals, catalogVars>>

\* a preloadZombies call resumes after `await zombie.init()`: the agent is
\* disabled and pushed; a pass with i % 10 = 0 then yields with setTimeout(0),
\* any other goes on to the next pass
PreloadPush(pos, r, model, physics) ==
    /\ nextContinuation("preloadZombies")
    /\ LET m == Head(microtasks)
           c == m.call
           zs == [zombies EXCEPT ![m.id] = preloaded([@ EXCEPT !.awaitedBy = "none"])]
           pz == Append(preloadedZombies, m.id)
       IN  IF preload[c].i % preloadYieldEvery = 0
           THEN /\ zombies' = zs
                /\ preloadedZombies' = pz
                /\ preload' = [preload EXCEPT ![c].pc = "yielded", ![c].i = @ + 1]
                /\ microtasks' = Tail(microtasks)
                /\ timers' = Append(timers, YieldTimer(c))
                /\ lastOp' = Op("preloadYield", m.id, preload[c].i)
                /\ UNCHANGED preloadComplete
           ELSE /\ preloadPass(preload, c, zs, pz, Tail(microtasks), preload[c].i + 1,
                               pos, r, model, physics)
                /\ UNCHANGED timers
    /\ UNCHANGED <<player, managerEnabled, enemies, config, entities, removeCalls,
                   intervals, catalogVars>>

\* the setTimeout(0) of a yield fires, once every yield scheduled before it has
\* fired: the preloadZombies call resumes at its next pass
PreloadResume(pos, r, model, physics) ==
    /\ ~microtasksPending
    /\ \E k \in 1..Len(timers) :
          /\ timers[k].kind = "yield"
          /\ \A j \in 1..(k - 1) : timers[j].kind # "yield"
          /\ preloadPass(preload, timers[k].id, zombies, preloadedZombies, microtasks,
                         preload[timers[k].id].i, pos, r, model, physics)
          /\ timers' = RemoveAt(timers, k)
    /\ UNCHANGED <<player, managerEnabled, enemies, config, entities, removeCalls,
                   intervals, catalogVars>>

\* Zombie.destroy(): the agent leaves the scene and the physics world and is disabled
destroy(z) == [z EXCEPT !.enabled = FALSE]

\* the entity registry destroys an entity
Destroy(i) ==
    /\ zombies[i].exists /\ zombies[i].enabled
    /\ zombies' = [zombies EXCEPT ![i] = destroy(@)]
    /\ lastOp' = Op("destroy", i, 0)
    /\ UNCHANGED <<player, timers, managerVars>>

\* EnemyManager.spawnZombie(position, typeId) up to its await; typeId "" is the
\* omitted argument and n the index of the requested type in SpawnTypeIds.
\* Without the type and without 'standard' typeData is undefined, the TypeError
\* is caught and null is returned (id 0); when addBody throws, zombie.init
\* rejects, which is caught the same way, the agent constructed being dropped.
spawnZombie(pos, n, model, physics) ==
    LET typeId == IF SpawnTypeIds[n] = "" THEN "standard" ELSE SpawnTypeIds[n]
        found == typeIndex(enemyTypes, typeId)
        k == IF found # 0 THEN found ELSE typeIndex(enemyTypes, "standard")
    IN  /\ IF k = 0
           THEN /\ lastOp' = Op("spawnZombie", 0, n)
                /\ UNCHANGED <<zombies, microtasks>>
           ELSE /\ NextId \in ZombieIds
                /\ LET z == NewZombie(pos, typeProps(enemyTypes[k]))
                   IN  IF physics = "ok"
                       THEN /\ zombies' = [zombies EXCEPT ![NextId] =
                                              [zombieInit(z, model) EXCEPT
                                                  !.awaitedBy = "spawnZombie",
                                                  !.typeArg = n]]
                            /\ microtasks' = Append(microtasks,
                                                    Continuation("init", NextId, n))
                            /\ lastOp' = Op("spawnAwait", NextId, n)
                       ELSE /\ zombies' = [zombies EXCEPT ![NextId] = z]
                            /\ lastOp' = Op("spawnZombie", 0, n)
                            /\ UNCHANGED microtasks
        /\ UNCHANGED <<player, timers, managerEnabled, enemies, preloadedZombies,
                       preloadComplete, config, entities, removeCalls, intervals, preload,
                       catalogVars>>

\* spawnZombie resumes after `await zombie.init()`: addEntity, enemies.push, and
\* the agent is returned
SpawnResume(i) ==
    /\ nextContinuation("spawnZombie")
    /\ Head(microtasks).id = i
    /\ zombies' = [zombies EXCEPT ![i].awaitedBy = "none"]
    /\ microtasks' = Tail(microtasks)
    /\ entities' = Append(entities, i)
    /\ enemies' = Append(enemies, i)
    /\ lastOp' = Op("spawnZombie", i, zombies[i].typeArg)
    /\ UNCHANGED <<player, timers, managerEnabled, preloadedZombies, preloadComplete,
                   config, removeCalls, intervals, preload, catalogVars>>

\* the host switches the manager on or off
SetEnabled(b) ==
    /\ managerEnabled # b
    /\ managerEnabled' = b
    /\ lastOp' = Op("environment", 0, 0)
    /\ UNCHANGED <<zombies, player, timers, enemies, preloadedZombies, preloadComplete,
                   config, entities, removeCalls, intervals, preload, microtasks, catalogVars>>

\* engine.player before the player is created
NoPlayer == [exists |-> FALSE, position |-> 0, hits |-> 0, lastAmount |-> 0, lastSource |-> 0]

\* one agent spawned and registered (spawnZombie), the manager idle
AgentInit(bodyCoords, playerCoords, ranges) ==
    /\ \E pos \in bodyCoords, dr \in ranges :
          zombies = [i \in ZombieIds |->
                        IF i = 1
                        THEN zombieInitDone(zombieInit(NewZombie(pos, standardType(dr)),
                                                       "model"))
                        ELSE NoZombie]
    /\ \E pos \in playerCoords : player = NewPlayer(pos)
    /\ timers = <<>>
    /\ managerEnabled = TRUE
    /\ preload = <<>>
    /\ microtasks = <<>>
    /\ enemies = <<1>>
    /\ preloadedZombies = <<>>
    /\ preloadComplete = FALSE
    /\ config = [maxEnemies |-> 100, preloadAtStart |-> TRUE, initialActiveCount |-> 20,
                 activationRate |-> 2, enemyTypes |-> <<>>]
    /\ enemyTypes = registerDefaultEnemyTypes(<<>>)
    /\ spawnAreas = <<>>
    /\ totalSpawnWeight = 0
    /\ spawnPoint = NoSpawnPoint
    /\ entities = <<1>>
    /\ removeCalls = <<>>
    /\ intervals = <<>>
    /\ lastOp = Op("spawnZombie", 1, 0)

(* Spec: one agent in combat with the player *)
Init == AgentInit(BodyCoords, PlayerCoords, {defaultDetectionRange})

Next ==
    \/ \E dt \in CombatTicks, drift \in YawDrifts : Tick(1, dt, drift, MaxTime)
    \/ \E pos \in BodyCoords : PhysicsStep(1, pos)
    \/ \E pos \in PlayerCoords : MovePlayer(pos)
    \/ \E a \in DamageAmounts : TakeDamage(1, a)
    \/ \E k \in 1..Len(timers) : FireDamage(k)
    \/ FireReturn

Spec == Init /\ [][Next]_vars

(* SpecPerception: one agent around its detection range and the far tier, short frames *)
InitPerception == AgentInit(PerceptionBodyCoords, PlayerCoords, DetectionRanges)

NextPerception ==
    \/ \E dt \in PerceptionTicks, drift \in YawDrifts : Tick(1, dt, drift, MaxPerceptionTime)
    \/ \E pos \in PerceptionBodyCoords : PhysicsStep(1, pos)
    \/ \E pos \in PlayerCoords : MovePlayer(pos)
    \/ \E a \in DamageAmounts : TakeDamage(1, a)

SpecPerception == InitPerception /\ [][NextPerception]_vars

(* SpecGrace: one agent chasing a player who steps in and out of its detection range *)
InitGrace == AgentInit(GraceBodyCoords, PlayerCoords, {defaultDetectionRange})

NextGrace ==
    \/ \E dt \in GraceTicks : Tick(1, dt, 0, MaxGraceTime)
    \/ \E pos \in PlayerCoords : MovePlayer(pos)

SpecGrace == InitGrace /\ [][NextGrace]_vars

(* SpecFar: one agent in the far and very far tiers, frames of 0.375 s and
   0.625 s *)
InitFar == AgentInit({9000}, FarPlayerCoords, {defaultDetectionRange})

NextFar ==
    \/ \E dt \in FarTicks : Tick(1, dt, 0, MaxFarTime)
    \/ \E pos \in FarBodyCoords : PhysicsStep(1, pos)
    \/ \E pos \in FarPlayerCoords : MovePlayer(pos)

SpecFar == InitFar /\ [][NextFar]_vars

(* SpecStaged: the start-up of main.js (initGame) with no deaths: the manager is
   configured; with config.preloadAtStart preloadZombies is called and awaited;
   the 2000 ms timer then calls activatePreloadedZombies once and the activation
   timer fires, between frames of EnemyManager.update *)
InitStaged ==
    /\ zombies = [i \in ZombieIds |-> NoZombie]
    /\ player = NewPlayer(0)
    /\ timers = <<>>
    /\ managerEnabled = TRUE
    /\ preload = <<>>
    /\ microtasks = <<>>
    /\ enemies = <<>>
    /\ preloadedZombies = <<>>
    /\ preloadComplete = FALSE
    /\ \E m \in 0..MaxZombies, a \in 0..MaxInitialActive, r \in 1..MaxActivationRate,
          p \in BOOLEAN :
          config = [maxEnemies |-> m, preloadAtStart |-> p, initialActiveCount |-> a,
                    activationRate |-> r, enemyTypes |-> <<>>]
    /\ enemyTypes = registerDefaultEnemyTypes(<<>>)
    /\ spawnAreas = <<>>
    /\ totalSpawnWeight = 0
    /\ spawnPoint = NoSpawnPoint
    /\ entities = <<>>
    /\ removeCalls = <<>>
    /\ intervals = <<>>
    /\ lastOp = Op("configure", 0, 0)

NextStaged ==
    \/ \E pos \in SpawnCoords, r \in DrawRange :
          /\ config.preloadAtStart /\ preload = <<>>
          /\ PreloadCall(pos, r, "model", "ok")
    \/ ZombieInitResume
    \/ \E pos \in SpawnCoords, r \in DrawRange : PreloadPush(pos, r, "model", "ok")
    \/ \E pos \in SpawnCoords, r \in DrawRange : PreloadResume(pos, r, "model", "ok")
    \/ /\ config.preloadAtStart => preload # <<>> /\ preload[1].pc = "done"
       /\ intervals = <<>>
       /\ activatePreloadedZombies
    \/ \E k \in 1..Len(intervals) : IntervalFire(k)
    \/ ManagerUpdate

SpecStaged == InitStaged /\ [][NextStaged]_vars

\* setInterval keeps firing a timer that has not been cleared
SpecStagedFair == SpecStaged /\ WF_vars(\E k \in 1..Len(intervals) : IntervalFire(k))

(* SpecManager: the manager's operations in any order, with agents dying: preload
   (with or without a player), activation calls, timer firings, update, clear.
   The roster is built by one preloadZombies call, as the host's start-up makes
   (main.js:21-24); calls overlapping one another are followed in SpecPreload *)
ManagerInit(sizes) ==
    /\ zombies = [i \in ZombieIds |-> NoZombie]
    /\ player \in {NoPlayer, NewPlayer(0)}
    /\ timers = <<>>
    /\ managerEnabled = TRUE
    /\ preload = <<>>
    /\ microtasks = <<>>
    /\ enemies = <<>>
    /\ preloadedZombies = <<>>
    /\ preloadComplete = FALSE
    /\ \E m \in sizes, a \in InitialCounts, r \in ActivationRates :
          config = [maxEnemies |-> m, preloadAtStart |-> TRUE, initialActiveCount |-> a,
                    activationRate |-> r, enemyTypes |-> <<>>]
    /\ enemyTypes = registerDefaultEnemyTypes(<<>>)
    /\ spawnAreas = <<>>
    /\ totalSpawnWeight = 0
    /\ spawnPoint = NoSpawnPoint
    /\ entities = <<>>
    /\ removeCalls = <<>>
    /\ intervals = <<>>
    /\ lastOp = Op("configure", 0, 0)

InitManager == ManagerInit(PopulationSizes)

NextManager ==
    \/ \E pos \in SpawnCoords, r \in DrawRange :
          /\ preload = <<>>
          /\ PreloadCall(pos, r, "model", "ok")
    \/ ZombieInitResume
    \/ \E pos \in SpawnCoords, r \in DrawRange : PreloadPush(pos, r, "model", "ok")
    \/ \E pos \in SpawnCoords, r \in DrawRange : PreloadResume(pos, r, "model", "ok")
    \/ Len(intervals) < MaxActivations /\ Len(enemies) < MaxRoster /\ activatePreloadedZombies
    \/ \E k \in 1..Len(intervals) : Len(enemies) < MaxRoster /\ IntervalFire(k)
    \/ ManagerUpdate
    \/ clear
    \/ \E b \in BOOLEAN : SetEnabled(b)
    \/ \E i \in Range(enemies) : TakeDamage(i, 150)

SpecManager == InitManager /\ [][NextManager]_vars

(* SpecPreload: preloadZombies with the host running update, configure, clear,
   further preloadZombies calls, the start-up activation call (main.js:34-36) and
   timer firings while it is suspended (at each await of zombie.init and at its
   yields); addBody may throw; no deaths *)
InitPreload == ManagerInit(PreloadSizes)

NextPreload ==
    \/ \E pos \in SpawnCoords, r \in DrawRange, physics \in addBodyOutcomes :
          /\ NextId - 1 + config.maxEnemies <= MaxConstructed
          /\ PreloadCall(pos, r, "model", physics)
    \/ ZombieInitResume
    \/ \E pos \in SpawnCoords, r \in DrawRange, physics \in addBodyOutcomes :
          PreloadPush(pos, r, "model", physics)
    \/ \E pos \in SpawnCoords, r \in DrawRange, physics \in addBodyOutcomes :
          PreloadResume(pos, r, "model", physics)
    \/ /\ intervals = <<>>
       /\ Len(enemies) < MaxPreloadRoster
       /\ activatePreloadedZombies
    \/ \E k \in 1..Len(intervals) : Len(enemies) < MaxPreloadRoster /\ IntervalFire(k)
    \/ ManagerUpdate
    \/ clear
    \/ \E m \in PreloadSizes : configure([maxEnemies |-> m])

SpecPreload == InitPreload /\ [][NextPreload]_vars

(* SpecCatalog: the manager as constructed; init, configure with type lists,
   configureSpawnAreas, weighted draws and one-off spawns in any order *)
InitCatalog ==
    /\ zombies = [i \in ZombieIds |-> NoZombie]
    /\ player = NewPlayer(0)
    /\ timers = <<>>
    /\ managerEnabled = TRUE
    /\ preload = <<>>
    /\ microtasks = <<>>
    /\ enemies = <<>>
    /\ preloadedZombies = <<>>
    /\ preloadComplete = FALSE
    /\ config = [maxEnemies |-> 100, preloadAtStart |-> TRUE, initialActiveCount |-> 20,
                 activationRate |-> 2, enemyTypes |-> <<>>]
    /\ enemyTypes = <<>>
    /\ spawnAreas = <<>>
    /\ totalSpawnWeight = 0
    /\ spawnPoint = NoSpawnPoint
    /\ entities = <<>>
    /\ removeCalls = <<>>
    /\ intervals = <<>>
    /\ lastOp = Op("constructor", 0, 0)

NextCatalog ==
    \/ init
    \/ \E k \in 1..Len(TypeLists) : configure([enemyTypes |-> TypeLists[k]])
    \/ \E k \in 1..Len(AreaLists) : configureSpawnAreas(AreaLists[k], k)
    \/ \E r \in DrawRange : SelectSpawnArea(r)
    \/ \E r \in DrawRange : DrawEnemyType(r)
    \/ \E pos \in SpawnCoords, n \in 1..Len(SpawnTypeIds) :
          NextId <= MaxSpawned /\ spawnZombie(pos, n, "model", "ok")
    \/ ZombieInitResume
    \/ \E i \in Awaiting : SpawnResume(i)

SpecCatalog == InitCatalog /\ [][NextCatalog]_vars

(* SpecPursuit: one agent between two places of the player, one within its
   detection range and one beyond it on the other side *)
InitPursuit == AgentInit({1550}, PursuitPlayerCoords, {defaultDetectionRange})

NextPursuit ==
    \/ \E dt \in PerceptionTicks : Tick(1, dt, 0, MaxPursuitTime)
    \/ \E pos \in PursuitBodyCoords : PhysicsStep(1, pos)
    \/ \E pos \in PursuitPlayerCoords : MovePlayer(pos)

SpecPursuit == InitPursuit /\ [][NextPursuit]_vars

(* SpecLifecycle: the manager initialised and configured with two types; an
   optional preload of one agent at start-up, then one-off spawns whose
   collaborators may fail, frames, attack callbacks, deaths, update, clear and
   destroy *)
InitLifecycle ==
    /\ zombies = [i \in ZombieIds |-> NoZombie]
    /\ player = NewPlayer(0)
    /\ timers = <<>>
    /\ managerEnabled = TRUE
    /\ preload = <<>>
    /\ microtasks = <<>>
    /\ enemies = <<>>
    /\ preloadedZombies = <<>>
    /\ preloadComplete = FALSE
    /\ config = [maxEnemies |-> 1, preloadAtStart |-> TRUE, initialActiveCount |-> 20,
                 activationRate |-> 2, enemyTypes |-> LifecycleTypes]
    /\ enemyTypes = setEnemyTypes(registerDefaultEnemyTypes(<<>>), LifecycleTypes)
    /\ spawnAreas = <<>>
    /\ totalSpawnWeight = 0
    /\ spawnPoint = NoSpawnPoint
    /\ entities = <<>>
    /\ removeCalls = <<>>
    /\ intervals = <<>>
    /\ lastOp = Op("configure", 0, 0)

NextLifecycle ==
    \/ \E pos \in SpawnCoords, r \in DrawRange :
          NextId = 1 /\ PreloadCall(pos, r, "model", "ok")
    \/ \E pos \in SpawnCoords, r \in DrawRange : PreloadPush(pos, r, "model", "ok")
    \/ \E pos \in SpawnCoords, r \in DrawRange : PreloadResume(pos, r, "model", "ok")
    \/ \E pos \in LifecycleCoords, n \in {1, 2}, model \in getModelOutcomes,
          physics \in addBodyOutcomes :
          /\ NextId <= MaxLifecycleAgents /\ entities = <<>>
          /\ spawnZombie(pos, n, model, physics)
    \/ ZombieInitResume
    \/ \E i \in Awaiting : SpawnResume(i)
    \/ \E i \in Range(entities), dt \in LifecycleTicks : Tick(i, dt, 0, MaxLifecycleTime)
    \/ \E k \in 1..Len(timers) : FireDamage(k)
    \/ FireReturn
    \/ \E i \in Range(enemies) : TakeDamage(i, 150)
    \/ ManagerUpdate
    \/ clear
    \/ \E i \in Range(enemies) \cup Range(removeCalls) : Destroy(i)

SpecLifecycle == InitLifecycle /\ [][NextLifecycle]_vars

(* SpecSampler: spawn areas are configured and spawn positions are drawn *)
NextSampler ==
    \/ \E k \in 1..Len(SamplerAreaLists) : configureSpawnAreas(SamplerAreaLists[k], k)
    \/ \E pp \in PlayerPoints, r \in DrawRange, a \in 1..Len(Angles),
          k1 \in RandomDraws, k2 \in RandomDraws : GetSpawnPosition(pp, r, a, k1, k2)

SpecSampler == InitCatalog /\ [][NextSampler]_vars

----------------------------------------------------------------------------
(* Properties of the agent *)

Agents == {i \in ZombieIds : zombies[i].exists}

\* the step is the firing of the damage callback timers[k]
DamageFires(k) ==
    /\ k \in 1..Len(timers)
    /\ timers[k].kind = "damage"
    /\ timers' = RemoveAt(timers, k)
    /\ lastOp'.op = "damageCallback"

\* the step is the firing of the return-to-chase callback at the head of the queue
ReturnFires ==
    /\ Len(timers) > 0
    /\ timers[1].kind = "return"
    /\ timers' = Tail(timers)
    /\ lastOp'.op = "returnCallback"

\* C1: player.takeDamage is called only by a firing damage callback, and only
\* when at the firing instant the agent's state is attack and its distance to
\* the player is at most attackRange.
C1_DamageRecheckedAtFire ==
    [][player'.hits # player.hits =>
          \E k \in 1..Len(timers) :
              /\ DamageFires(k)
              /\ zombies[timers[k].id].state = "attack"
              /\ distanceToPlayer(zombies[timers[k].id], player) <= attackRange
              /\ player'.hits = player.hits + 1
              /\ player'.lastSource = timers[k].id]_vars

\* a damage callback has just fired and damaged the player
C1_Witness == lastOp.op = "damageCallback" /\ lastOp.n = 1 /\ player.hits > 0

\* C2: no step damages the player on behalf of an agent whose state is death,
\* whatever callbacks of that agent are still outstanding.
C2_DeadAgentNeverDamages ==
    [][\A i \in Agents :
          zombies[i].state = "death" =>
              ~(player'.hits # player.hits /\ player'.lastSource = i)]_vars

\* the damage callback of an agent killed after its attack trigger has fired,
\* with the player still within attackRange, and did not damage the player
C2_Witness ==
    /\ lastOp.op = "damageCallback"
    /\ lastOp.n = 0
    /\ zombies[lastOp.id].state = "death"
    /\ distanceToPlayer(zombies[lastOp.id], player) <= attackRange
    /\ player.hits = 0

\* C3: takeDamage that leaves health at 0 or below returns with state = death
\* and isAlive = false.
C3_LethalDamageKills ==
    lastOp.op = "takeDamage" /\ zombies[lastOp.id].health <= 0
        => zombies[lastOp.id].state = "death" /\ ~zombies[lastOp.id].isAlive

\* takeDamage has just brought the health of an agent to exactly 0
C3_Witness ==
    /\ lastOp.op = "takeDamage"
    /\ zombies[lastOp.id].health = 0
    /\ zombies[lastOp.id].state = "death"

\* C4: once an agent's state is death no step changes its state, isAlive,
\* position or yaw; its health is only ever lowered.
C4_DeathIsTerminal ==
    [][\A i \in Agents :
          zombies[i].state = "death" =>
              /\ zombies'[i].state = "death"
              /\ zombies'[i].isAlive = zombies[i].isAlive
              /\ ~zombies'[i].isAlive
              /\ zombies'[i].position = zombies[i].position
              /\ zombies'[i].rotationY = zombies[i].rotationY
              /\ zombies'[i].health <= zombies[i].health]_vars

\* a dead agent has been damaged again (health below what any killing blow
\* leaves) while its body is away from its position
C4_Witness ==
    /\ lastOp.op = "takeDamage"
    /\ zombies[lastOp.id].state = "death"
    /\ zombies[lastOp.id].health < -100
    /\ zombies[lastOp.id].bodyPosition # zombies[lastOp.id].position

\* C5: the return callback sets the state to chase if the state is attack when
\* it fires, and otherwise changes nothing of the agent.
C5_ReturnOnlyFromAttack ==
    [][ReturnFires =>
          LET i == timers[1].id IN
          IF zombies[i].state = "attack"
          THEN zombies'[i].state = "chase"
          ELSE zombies'[i] = zombies[i]]_vars

\* a return callback has just fired on a dead agent
C5_Witness ==
    /\ lastOp.op = "returnCallback"
    /\ zombies[lastOp.id].state = "death"

\* the step is a frame of agent i that is enabled and alive
Ticks(i) ==
    /\ zombies[i].enabled /\ zombies[i].isAlive
    /\ zombies'[i].timeSinceSpawn > zombies[i].timeSinceSpawn

TickLength(i) == zombies'[i].timeSinceSpawn - zombies[i].timeSinceSpawn

\* C6 as stated: a frame at least one perception cycle long that starts with an
\* enabled, alive, idle agent within detectionRange of the player ends with the
\* agent out of idle (0.2 s of ticks have then passed with the player in range;
\* the agent may have gone on from chase to attack in the same frame).
C6_ChaseWithinOneCycle ==
    [][\A i \in Agents :
          /\ Ticks(i) /\ TickLength(i) >= perceptionUpdateRate
          /\ zombies[i].state = "idle"
          /\ distanceToPlayer(zombies[i], player) <= zombies[i].detectionRange
          => zombies'[i].state \in {"chase", "attack"}]_vars

\* C6 amended: within farDistance, the frame in which the perception countdown
\* expires takes an idle agent within detectionRange out of idle (to chase, or
\* on to attack in the same frame), and the countdown never holds more than one
\* perception cycle.
C6_ChaseWhenCountdownExpires ==
    /\ [][\A i \in Agents :
            /\ Ticks(i)
            /\ zombies[i].updatePerceptionTime - TickLength(i) <= 0
            /\ zombies[i].state = "idle"
            /\ distanceToPlayer(zombies[i], player) <= zombies[i].detectionRange
            /\ distanceToPlayer(zombies[i], player) <= farDistance
            => /\ zombies'[i].state \in {"chase", "attack"}
               /\ zombies'[i].canSeePlayer]_vars
    /\ [](\A i \in Agents : zombies[i].updatePerceptionTime <= perceptionUpdateRate)

\* an agent has just left idle for chase in a frame that refreshed its perception
C6_Witness ==
    /\ lastOp.op = "update"
    /\ zombies[lastOp.id].state = "chase"
    /\ zombies[lastOp.id].timeInCurrentState = 0
    /\ zombies[lastOp.id].canSeePlayer
    /\ zombies[lastOp.id].timeSinceSpawn > perceptionUpdateRate
    /\ zombies[lastOp.id].updatePerceptionTime = perceptionUpdateRate

\* C7: no step takes an agent from idle to chase while its distance to the
\* player exceeds detectionRange.
C7_NoChaseBeyondDetectionRange ==
    [][\A i \in Agents :
          zombies[i].state = "idle" /\ zombies'[i].state = "chase"
              => distanceToPlayer(zombies[i], player) <= zombies[i].detectionRange]_vars

\* an agent has just gone from idle to chase with the player exactly at detectionRange
C7_Witness ==
    /\ lastOp.op = "update"
    /\ zombies[lastOp.id].state = "chase"
    /\ zombies[lastOp.id].timeInCurrentState = 0
    /\ zombies[lastOp.id].lastKnownPlayerPosition # NoPosition
    /\ distanceTo(zombies[lastOp.id].bodyPosition, player.position)
          = zombies[lastOp.id].detectionRange

\* C8 as stated: an agent leaves chase for idle only when the player was already
\* out of its perception before the frame (sight lost for the whole grace period).
C8_IdleOnlyAfterGraceWithoutSight ==
    [][\A i \in Agents :
          zombies[i].state = "chase" /\ zombies'[i].state = "idle"
              => ~zombies[i].canSeePlayer]_vars

\* C21: a frame of an enabled, alive agent whose distance to the player exceeds
\* veryFarDistance leaves its position as it was, whatever its body does; a
\* frame at a distance within veryFarDistance sets the position to the body's;
\* nothing else changes the position.
C21_PositionHeldVeryFar ==
    [][\A i \in Agents :
          /\ Ticks(i) =>
                IF distanceToPlayer(zombies[i], player) > veryFarDistance
                THEN zombies'[i].position = zombies[i].position
                ELSE zombies'[i].position = zombies[i].bodyPosition
          /\ zombies'[i].position # zombies[i].position => Ticks(i)]_vars

\* a frame has just left the position of a very far agent behind its moving
\* body, whose velocity is not zero
C21_Witness ==
    /\ lastOp.op = "update"
    /\ zombies[lastOp.id].enabled /\ zombies[lastOp.id].isAlive
    /\ distanceToPlayer(zombies[lastOp.id], player) > veryFarDistance
    /\ zombies[lastOp.id].bodyVelocity # 0
    /\ zombies[lastOp.id].bodyPosition # zombies[lastOp.id].position

\* C22: an agent beyond farDistance has its perception and state machine
\* advanced about every 3 simulated seconds: it never passes two 3-second marks
\* in a row without an advance, whatever the frame lengths.
C22_FarAgentAdvancedEveryPeriod ==
    \A i \in Agents : zombies[i].missedPeriods <= 1

\* the frame runs updatePerception: the agent is within farDistance, or beyond
\* it in a frame that ends in the window after a 3-second mark
PerceptionRuns(i) ==
    /\ Ticks(i)
    /\ \/ player.exists /\ distanceToPlayer(zombies[i], player) <= farDistance
       \/ zombies'[i].timeSinceSpawn % farUpdatePeriod < farUpdateWindow

\* the frame refreshes the perception: the countdown expires in it
Refreshes(i) ==
    /\ PerceptionRuns(i)
    /\ zombies[i].updatePerceptionTime - TickLength(i) <= 0

\* C23: canSeePlayer changes only in a frame that refreshes the perception; a
\* refresh sets the countdown back to 0.2 s and canSeePlayer to (distance <=
\* detectionRange); a perception update that finds the countdown unexpired only
\* lowers it by the frame length, so refreshes are at least 0.2 s of perception
\* updates apart.
C23_PerceptionOnCountdown ==
    [][\A i \in Agents :
          /\ zombies'[i].canSeePlayer # zombies[i].canSeePlayer => Refreshes(i)
          /\ Refreshes(i) =>
                /\ zombies'[i].updatePerceptionTime = perceptionUpdateRate
                /\ zombies'[i].canSeePlayer
                      = (/\ player.exists
                         /\ distanceToPlayer(zombies[i], player) <= zombies[i].detectionRange)
          /\ PerceptionRuns(i) /\ ~Refreshes(i) =>
                /\ zombies'[i].updatePerceptionTime
                      = zombies[i].updatePerceptionTime - TickLength(i)
                /\ zombies'[i].updatePerceptionTime > 0
                /\ zombies'[i].canSeePlayer = zombies[i].canSeePlayer
          /\ ~PerceptionRuns(i) =>
                zombies'[i].updatePerceptionTime = zombies[i].updatePerceptionTime]_vars

\* a refresh has just found the player, seen before, out of detectionRange
C23_Witness ==
    /\ lastOp.op = "update"
    /\ zombies[lastOp.id].state = "chase"
    /\ zombies[lastOp.id].lastKnownPlayerPosition # NoPosition
    /\ ~zombies[lastOp.id].canSeePlayer
    /\ zombies[lastOp.id].updatePerceptionTime = perceptionUpdateRate
    /\ zombies[lastOp.id].timeInCurrentState > 0

\* C24: attack is entered only from chase, in a frame where the distance to the
\* player is at most attackRange; a frame takes an agent from attack to chase
\* only when the distance exceeds 1.2 x attackRange, and triggers no attack.
C24_AttackEntryAndHysteresis ==
    [][\A i \in Agents :
          /\ zombies'[i].state = "attack" /\ zombies[i].state # "attack" =>
                /\ Ticks(i)
                /\ zombies'[i].enteredFrom = "chase"
                /\ distanceToPlayer(zombies[i], player) <= attackRange
          /\ Ticks(i) /\ zombies[i].state = "attack" =>
                IF distanceToPlayer(zombies[i], player) > (12 * attackRange) \div 10
                THEN /\ zombies'[i].state = "chase"
                     /\ zombies'[i].attacksTriggered = zombies[i].attacksTriggered
                     /\ timers' = timers
                ELSE zombies'[i].state = "attack"]_vars

\* a frame has just sent an agent that had attacked back from attack to chase
C24_Witness ==
    /\ lastOp.op = "update"
    /\ zombies[lastOp.id].state = "chase"
    /\ zombies[lastOp.id].enteredFrom = "attack"
    /\ zombies[lastOp.id].timeInCurrentState = 0
    /\ zombies[lastOp.id].attacksTriggered >= 1

----------------------------------------------------------------------------
(* Properties of the manager *)

\* the step is a call of activatePreloadedZombies
ActivateStep ==
    /\ lastOp'.op = "activatePreloadedZombies"
    /\ Len(intervals') = Len(intervals) + 1

\* ceil(a / b) for a >= 0, b >= 1
CeilDiv(a, b) == (a + b - 1) \div b

\* C9: activatePreloadedZombies on n disabled preloaded agents and an empty
\* active roster enables, registers and appends exactly the first
\* min(initialActiveCount, n) of them.
C9_InitialBatchIsMin ==
    [][(/\ ActivateStep
        /\ enemies = <<>>
        /\ \A k \in 1..Len(preloadedZombies) : ~zombies[preloadedZombies[k]].enabled)
       => LET n == Len(preloadedZombies)
              m == IF config.initialActiveCount < n THEN config.initialActiveCount ELSE n
          IN  /\ Len(enemies') = m
              /\ enemies' = SubSeq(preloadedZombies, 1, m)
              /\ entities' = entities \o SubSeq(preloadedZombies, 1, m)
              /\ \A k \in 1..n : zombies'[preloadedZombies[k]].enabled <=> k <= m]_vars

\* the initial batch has just been activated and initialActiveCount, smaller
\* than the preloaded roster, is what limited it
C9_Witness ==
    /\ lastOp.op = "activatePreloadedZombies"
    /\ Len(enemies) = config.initialActiveCount
    /\ Len(enemies) >= 2
    /\ Len(preloadedZombies) > Len(enemies)

\* C10: with n preloaded agents, k = min(initialActiveCount, n) and no deaths,
\* after j firings of the activation timer the active roster holds
\* min(n, k + j * activationRate) agents, all enabled and registered; a firing
\* adds at most activationRate agents; after ceil((n - k) / activationRate)
\* firings all n are active.
C10_StagedActivationCount ==
    /\ [](Len(intervals) = 1 =>
            LET n == Len(preloadedZombies)
                k == IF config.initialActiveCount < n THEN config.initialActiveCount ELSE n
                j == intervals[1].fired
                r == config.activationRate
                m == IF k + j * r < n THEN k + j * r ELSE n
            IN  /\ Len(enemies) = m
                /\ enemies = SubSeq(preloadedZombies, 1, m)
                /\ entities = enemies
                /\ \A i \in 1..n : zombies[preloadedZombies[i]].enabled <=> i <= m
                /\ j >= CeilDiv(n - k, r) => Len(enemies) = n)
    /\ [][\A t \in 1..Len(intervals) :
            intervals'[t].fired # intervals[t].fired
               => /\ Len(enemies') >= Len(enemies)
                  /\ Len(enemies') - Len(enemies) <= config.activationRate]_vars

\* the timer has fired at least twice, the last firing enabling fewer agents
\* than activationRate, and every preloaded agent is active
C10_Witness ==
    /\ Len(intervals) = 1
    /\ intervals[1].fired = 2
    /\ ~intervals[1].cleared
    /\ lastOp.op = "activationTimer"
    /\ lastOp.n >= 1
    /\ lastOp.n < config.activationRate
    /\ Len(enemies) = Len(preloadedZombies)
    /\ config.initialActiveCount >= 1

\* C35: the activation timer is cancelled by the first firing that finds the
\* preloaded roster exhausted and by no earlier one, it never fires once
\* cancelled, every preloaded agent is active and enabled when it is cancelled,
\* and a timer that keeps firing is eventually cancelled.
C35_TimerEventuallyCancelled ==
    /\ [][\A t \in 1..Len(intervals) :
            intervals'[t].fired > intervals[t].fired
               => /\ ~intervals[t].cleared
                  /\ intervals'[t].cleared <=> intervals[t].index >= Len(preloadedZombies)]_vars
    /\ [](\A t \in 1..Len(intervals) :
            intervals[t].cleared
               => \A k \in 1..Len(preloadedZombies) :
                     /\ zombies[preloadedZombies[k]].enabled
                     /\ preloadedZombies[k] \in Range(enemies))
    /\ [](Len(intervals) >= 1 => <>(Len(intervals) >= 1 /\ intervals[1].cleared))

\* the timer has been cancelled by its third firing, after two firings that
\* activated agents
C35_Witness ==
    /\ Len(intervals) = 1
    /\ intervals[1].cleared
    /\ intervals[1].fired >= 3
    /\ Len(enemies) = Len(preloadedZombies)
    /\ Len(preloadedZombies) > config.initialActiveCount + config.activationRate

\* how many times id occurs in the sequence s
Count(s, id) == Cardinality({k \in 1..Len(s) : s[k] = id})

\* the step is a call of EnemyManager.update
UpdateStep == lastOp'.op = "managerUpdate"

\* the step is a call of clear()
ClearStep == lastOp'.op = "clear"

\* C11: in every reachable state the active roster holds at most maxEnemies agents.
C11_RosterWithinMaxPopulation == Len(enemies) <= config.maxEnemies

\* C12: a step adds an agent to the active roster only if the agent was disabled
\* (never activated) before, and adds it once: each preloaded agent is enabled
\* and registered at most once and occurs at most once in the active roster.
C12_ActivatedAtMostOnce ==
    [][\A i \in Agents :
          Count(enemies', i) > Count(enemies, i)
              => /\ ~zombies[i].enabled
                 /\ Count(enemies', i) = 1
                 /\ Count(entities', i) = 1]_vars

\* C13: a firing of an activation timer scheduled before a clear() enables,
\* registers and appends no agent.
C13_ClearCancelsTimers ==
    [][\A k \in 1..Len(intervals) :
          intervals[k].stale /\ intervals'[k].fired # intervals[k].fired
              => UNCHANGED <<zombies, entities, enemies>>]_vars

\* C14: clear() leaves both rosters empty and preloadComplete false, and calls
\* removeEntity exactly once for every agent that was in the active roster.
C14_ClearDeregistersEachOnce ==
    [][ClearStep =>
          /\ enemies' = <<>>
          /\ preloadedZombies' = <<>>
          /\ ~preloadComplete'
          /\ \A i \in Agents :
                Count(removeCalls', i) = (IF i \in Range(enemies) THEN 1 ELSE 0)]_vars

\* C15: update of an enabled manager whose preload is complete leaves the alive
\* agents in the active roster, in order, and removes every dead one from the
\* active roster and from the entity registry.
C15_PruneRosterAndRegistry ==
    [][UpdateStep /\ managerEnabled /\ preloadComplete =>
          /\ enemies' = SelectSeq(enemies, LAMBDA i : zombies[i].isAlive)
          /\ \A i \in Range(enemies) :
                ~zombies[i].isAlive => i \notin Range(enemies') /\ i \notin Range(entities')]_vars

\* C16: update of a manager that is disabled or whose preload is not complete
\* changes neither roster, the registry nor any agent.
C16_UpdateNoOpUnlessReady ==
    [][UpdateStep /\ (~managerEnabled \/ ~preloadComplete) =>
          UNCHANGED <<enemies, preloadedZombies, entities, zombies, preloadComplete,
                      managerEnabled, intervals>>]_vars

\* update has just run with the preload not complete and left a dead agent in
\* the active roster of an enabled manager
C16_Witness ==
    /\ lastOp.op = "managerUpdate"
    /\ managerEnabled
    /\ ~preloadComplete
    /\ \E k \in 1..Len(enemies) : ~zombies[enemies[k]].isAlive

\* C17 as stated: an agent leaves the active roster only when its isAlive is false.
C17_LeavesOnlyWhenDead ==
    [][\A i \in Agents :
          i \in Range(enemies) /\ i \notin Range(enemies') => ~zombies[i].isAlive]_vars

\* C17 amended: the active roster loses an entry only in update, which removes
\* dead agents only, or in clear(), which empties it; and apart from clear() no
\* step disables an agent of the active roster.
C17_LeavesOnlyDeadOrByClear ==
    [][/\ \A i \in Agents :
             Count(enemies', i) < Count(enemies, i)
                 => \/ ClearStep /\ enemies' = <<>>
                    \/ UpdateStep /\ ~zombies[i].isAlive
       /\ ClearStep \/ \A i \in Range(enemies) : zombies[i].enabled => zombies'[i].enabled]_vars

\* update has just pruned a dead agent and kept an alive one
C17_Witness ==
    /\ lastOp.op = "managerUpdate"
    /\ Len(enemies) >= 1
    /\ \E i \in Range(entities) : ~zombies[i].isAlive /\ i \notin Range(enemies)

\* C18 as stated: a disabled agent of the preloaded roster is not in the active
\* roster, and an agent of the preloaded roster that is not in the active
\* roster is disabled.
C18_PreloadedDisjointIffDisabled ==
    \A i \in Range(preloadedZombies) :
        /\ ~zombies[i].enabled => i \notin Range(enemies)
        /\ i \notin Range(enemies) => ~zombies[i].enabled

\* C18 amended: a disabled agent of the preloaded roster is not in the active
\* roster, and an alive agent of the preloaded roster that is not in the active
\* roster is disabled.
C18_PreloadedDisjointWhileDisabled ==
    \A i \in Range(preloadedZombies) :
        /\ ~zombies[i].enabled => i \notin Range(enemies)
        /\ i \notin Range(enemies) /\ zombies[i].isAlive => ~zombies[i].enabled

\* one preloaded agent is active, another still waits disabled, and a third
\* state of the roster has been seen: a timer firing has just enabled an agent
C18_Witness ==
    /\ lastOp.op = "activationTimer"
    /\ lastOp.n = 1
    /\ \E i \in Range(preloadedZombies) : zombies[i].enabled /\ i \in Range(enemies)
    /\ \E i \in Range(preloadedZombies) : ~zombies[i].enabled

\* a preloadZombies call (lastOp.id) has just returned true
PreloadSucceeded == lastOp.op = "preloadZombies" /\ lastOp.n = 1

\* every agent of the preloaded roster is disabled, unregistered and inactive
PreloadedAllIdle ==
    \A i \in Range(preloadedZombies) :
        /\ ~zombies[i].enabled
        /\ i \notin Range(enemies)
        /\ i \notin Range(entities)

\* C19 as stated: when preloadZombies returns true the preloaded roster holds
\* exactly maxEnemies agents, all disabled, none registered or active, and
\* preloadComplete is true, whatever ran while it was suspended.
C19_PreloadedExactlyMax ==
    PreloadSucceeded =>
        /\ Len(preloadedZombies) = config.maxEnemies
        /\ PreloadedAllIdle
        /\ preloadComplete

\* C19 amended: when preloadZombies returns true preloadComplete is true; and
\* if the preloaded roster was empty and no other preloadZombies call was
\* suspended at the call, and no configure, clear, activation call,
\* activation-timer firing or other preloadZombies call ran while it was
\* suspended (at an await of zombie.init or at a yield), the roster holds
\* exactly maxEnemies distinct agents, all disabled, none registered or active.
C19_PreloadedExactlyMaxUndisturbed ==
    PreloadSucceeded =>
        /\ preloadComplete
        /\ preload[lastOp.id].clean =>
              /\ Len(preloadedZombies) = config.maxEnemies
              /\ Cardinality(Range(preloadedZombies)) = config.maxEnemies
              /\ PreloadedAllIdle

\* an undisturbed preload of two agents has just returned true after a yield,
\* with an activation timer pending from before the call
C19_Witness ==
    /\ PreloadSucceeded
    /\ preload[lastOp.id].clean
    /\ preload[lastOp.id].i = 2
    /\ Len(preloadedZombies) = 2
    /\ Len(intervals) >= 1

\* the step is a call of preloadZombies (to its first await or its return):
\* it returns false at the player check or joins the calls
PreloadCallStep ==
    \/ lastOp' = Op("preloadZombies", 0, 0)
    \/ Len(preload') > Len(preload)

\* C20: preloadZombies called without a player returns false and constructs
\* nothing: rosters, registry, agents and preloadComplete (false) are unchanged.
C20_NoPlayerNoPreload ==
    [][PreloadCallStep /\ ~player.exists =>
          /\ lastOp' = Op("preloadZombies", 0, 0)
          /\ ~preloadComplete'
          /\ UNCHANGED <<zombies, preloadedZombies, enemies, entities, preloadComplete,
                         preload, microtasks, timers, intervals>>]_vars

\* preloadZombies has just returned false for want of a player, after an
\* activation call on the empty roster
C20_Witness ==
    /\ lastOp = Op("preloadZombies", 0, 0)
    /\ ~player.exists
    /\ preloadedZombies = <<>>
    /\ Agents = {}
    /\ Len(intervals) >= 1

----------------------------------------------------------------------------
(* Properties of the type catalog and the spawn areas *)

TypeIds(types) == {types[k].id : k \in 1..Len(types)}

\* the ids config.enemyTypes supplies with weight 0
ZeroWeightIds == {config.enemyTypes[k].id :
                     k \in {j \in 1..Len(config.enemyTypes) : config.enemyTypes[j].weight = 0}}

\* the sum of the weights of the first k entries of s
RECURSIVE CumulativeWeight(_, _)
CumulativeWeight(s, k) == IF k = 0 THEN 0 ELSE CumulativeWeight(s, k - 1) + s[k].weight

\* C25: with some type set registered, spawnZombie called without a typeId or
\* with an unregistered one returns an enabled agent of the default type
\* 'standard', which is in the active roster and in the entity registry.
C25_SpawnFallsBackToDefault ==
    (/\ lastOp.op = "spawnZombie"
     /\ enemyTypes # <<>>
     /\ \/ SpawnTypeIds[lastOp.n] = ""
        \/ SpawnTypeIds[lastOp.n] \notin TypeIds(enemyTypes))
    => /\ lastOp.id # 0
       /\ zombies[lastOp.id].enabled
       /\ zombies[lastOp.id].zombieType = "standard"
       /\ lastOp.id \in Range(enemies)
       /\ lastOp.id \in Range(entities)

\* C26: once a non-empty list of types has been supplied to configure, the
\* registered types are exactly the types of that list, whether init ran before
\* configure or after it.
C26_ActiveSetIsRegisteredList ==
    config.enemyTypes # <<>> => TypeIds(enemyTypes) = TypeIds(config.enemyTypes)

\* C27: a type supplied with weight 0 is not registered by configure, and
\* getRandomEnemyType never returns it.
C27_ZeroWeightRejected ==
    /\ lastOp.op = "configure" => TypeIds(enemyTypes) \cap ZeroWeightIds = {}
    /\ lastOp.op = "getRandomEnemyType" => enemyTypes[lastOp.id].id \notin ZeroWeightIds

\* C28: every spawn area in the set has a weight above 0.
C28_RegionWeightsPositive ==
    \A k \in 1..Len(spawnAreas) : spawnAreas[k].weight > 0

\* C29: a configureSpawnAreas call leaves exactly the areas of its list, in
\* order, nothing else changes the set or the cached total, and the cached
\* total is always the sum of the weights of the areas in the set.
C29_RegionSetIsLastList ==
    [][/\ lastOp'.op = "configureSpawnAreas" =>
             /\ Len(spawnAreas') = Len(AreaLists[lastOp'.n])
             /\ \A k \in 1..Len(spawnAreas') : spawnAreas'[k].id = AreaLists[lastOp'.n][k].id
       /\ lastOp'.op # "configureSpawnAreas" => UNCHANGED <<spawnAreas, totalSpawnWeight>>
       /\ totalSpawnWeight' = CumulativeWeight(spawnAreas', Len(spawnAreas'))]_vars

\* a configureSpawnAreas call has just left two areas of total weight 4, with
\* agents spawned before it
C29_Witness ==
    /\ lastOp.op = "configureSpawnAreas"
    /\ Len(spawnAreas) = 2
    /\ totalSpawnWeight = 4
    /\ enemies # <<>>

\* C30: for a draw r in [0, totalSpawnWeight], selectWeightedSpawnArea returns
\* the first area, in configuration order, whose cumulative weight is at least
\* r, and the last area when no cumulative weight reaches r.
C30_FirstReachingInRange ==
    (/\ lastOp.op = "selectWeightedSpawnArea"
     /\ lastOp.n \in 0..totalSpawnWeight) =>
        LET reaching == {k \in 1..Len(spawnAreas) :
                            CumulativeWeight(spawnAreas, k) >= lastOp.n}
        IN  IF reaching # {}
            THEN lastOp.id = CHOOSE k \in reaching : \A j \in reaching : k <= j
            ELSE lastOp.id = Len(spawnAreas)

\* with the weights 2, 1, 1, 1 a draw of 3 has just selected the second area,
\* the first one being selected for the draws up to 2 only
C30_Witness ==
    /\ lastOp.op = "selectWeightedSpawnArea"
    /\ Len(spawnAreas) = 4
    /\ totalSpawnWeight = 5
    /\ lastOp.n = 3
    /\ lastOp.id = 2

\* the squared horizontal distance between two points
HorizontalSq(p, q) == (p.x - q.x) * (p.x - q.x) + (p.z - q.z) * (p.z - q.z)

\* C31: a position drawn from a circle or rectangle area lies inside it: within
\* the radius of a circle's centre, within half the size of a rectangle's
\* centre on x and on z, and at the elevation of the centre.
C31_SampleInsideRegion ==
    (lastOp.op = "getSpawnPosition" /\ lastOp.id # 0) =>
        LET area == spawnAreas[lastOp.id]
            p == spawnPoint.position
        IN  /\ area.type = "circle" =>
                  /\ HorizontalSq(p, area.center) <= area.radius * area.radius
                  /\ p.y = area.center.y
            /\ area.type = "rectangle" =>
                  /\ 2 * Abs(p.x - area.center.x) <= area.size.x
                  /\ 2 * Abs(p.z - area.center.z) <= area.size.z
                  /\ p.y = area.center.y

\* a position has just been drawn on the edge of a rectangle, away from its centre on z
C31_Witness ==
    /\ lastOp.op = "getSpawnPosition" /\ lastOp.id # 0
    /\ spawnAreas[lastOp.id].type = "rectangle"
    /\ 2 * (spawnAreas[lastOp.id].center.x - spawnPoint.position.x)
          = spawnAreas[lastOp.id].size.x
    /\ spawnPoint.position.z > spawnAreas[lastOp.id].center.z

\* C32: without areas, and when the selected area is neither a circle nor a
\* rectangle, the position drawn is at the elevation of playerPosition and at a
\* horizontal distance between 30 and 80 from it.
C32_DefaultPolicy ==
    (/\ lastOp.op = "getSpawnPosition"
     /\ \/ lastOp.id = 0
        \/ spawnAreas[lastOp.id].type \notin {"circle", "rectangle"})
    => /\ spawnPoint.position.y = spawnPoint.player.y
       /\ HorizontalSq(spawnPoint.position, spawnPoint.player)
             >= defaultMinDistance * defaultMinDistance
       /\ HorizontalSq(spawnPoint.position, spawnPoint.player)
             <= defaultMaxDistance * defaultMaxDistance

\* an area of unknown type has just been selected for a player off the origin,
\* and the position is 30 away from the player
C32_Witness ==
    /\ lastOp.op = "getSpawnPosition" /\ lastOp.id # 0
    /\ spawnAreas[lastOp.id].type = "polygon"
    /\ spawnPoint.player = Point(5000, 100, -2000)
    /\ HorizontalSq(spawnPoint.position, spawnPoint.player)
          = defaultMinDistance * defaultMinDistance

----------------------------------------------------------------------------
(* Properties of the agent's life cycle *)

\* the damage callbacks of agent i that have not fired yet
PendingDamage(i) == Cardinality({k \in 1..Len(timers) : timers[k] = DamageTimer(i)})

\* C38: an attack is triggered only by a frame that ends more than
\* attackCooldown after the previous trigger (after the spawn, for the first);
\* the trigger schedules exactly one damage callback and one return callback
\* and nothing else schedules any; the player has been damaged at most once
\* for each trigger whose damage callback has fired.
C38_CooldownAndOneCallbackPair ==
    /\ [][\A i \in Agents :
            /\ zombies'[i].attacksTriggered # zombies[i].attacksTriggered
                  => /\ Ticks(i)
                     /\ zombies'[i].attacksTriggered = zombies[i].attacksTriggered + 1
                     /\ zombies'[i].timeSinceSpawn - zombies[i].lastAttackTime > attackCooldown
                     /\ zombies'[i].lastAttackTime = zombies'[i].timeSinceSpawn
                     /\ timers' = timers \o <<DamageTimer(i), ReturnTimer(i)>>
            /\ zombies'[i].lastAttackTime # zombies[i].lastAttackTime
                  => zombies'[i].attacksTriggered = zombies[i].attacksTriggered + 1
            /\ zombies'[i].attacksTriggered = zombies[i].attacksTriggered
                  => PendingDamage(i)' <= PendingDamage(i)]_vars
    /\ [][Len(timers') > Len(timers)
            => \E i \in Agents : zombies'[i].attacksTriggered > zombies[i].attacksTriggered]_vars
    /\ [](\A i \in Agents :
            player.lastSource = i
               => player.hits + PendingDamage(i) <= zombies[i].attacksTriggered)

\* the second attack of an agent has just been triggered, the first one having
\* damaged the player
C38_Witness ==
    /\ lastOp.op = "update"
    /\ zombies[lastOp.id].attacksTriggered = 2
    /\ zombies[lastOp.id].lastAttackTime = zombies[lastOp.id].timeSinceSpawn
    /\ player.hits = 1
    /\ PendingDamage(lastOp.id) = 1

\* C34: lastKnownPlayerPosition changes only in a frame after which canSeePlayer
\* is true, and a frame of a chasing agent that does not see the player turns
\* the agent toward lastKnownPlayerPosition, never away from it.
C34_SteersToLastKnown ==
    [][\A i \in Agents :
          /\ zombies'[i].lastKnownPlayerPosition # zombies[i].lastKnownPlayerPosition
                => Ticks(i) /\ zombies'[i].canSeePlayer
          /\ (/\ PerceptionRuns(i)
              /\ zombies[i].state = "chase" /\ zombies'[i].state = "chase"
              /\ ~zombies'[i].canSeePlayer
              /\ zombies'[i].lastKnownPlayerPosition # NoPosition)
             => LET target == yawToward(zombies[i].position,
                                        zombies'[i].lastKnownPlayerPosition[1])
                IN  Abs(zombies'[i].rotationY - target) <= Abs(zombies[i].rotationY - target)]_vars

\* C33: spawnZombie for a registered type returns an agent whatever the model
\* lookup and the physics registration do: the agent is enabled, in idle, has
\* the model or the placeholder as its visual, and is in the roster.
C33_CreationSurvivesFailures ==
    lastOp.op = "spawnZombie" =>
        /\ lastOp.id # 0
        /\ zombies[lastOp.id].enabled
        /\ zombies[lastOp.id].state = "idle"
        /\ zombies[lastOp.id].visual \in {"model", "placeholder"}
        /\ lastOp.id \in Range(enemies)

\* an agent that has been disabled or taken out of the entity registry
Removed(i) == ~zombies[i].enabled \/ i \notin Range(entities)

\* C36: no frame and no attack callback changes the state of an agent that is
\* disabled or has been removed, and no callback of such an agent damages the
\* player.
C36_RemovedAgentIsInert ==
    [][\A i \in Agents :
          (Removed(i) /\ lastOp'.op \in {"update", "damageCallback", "returnCallback"})
             => /\ zombies'[i].state = zombies[i].state
                /\ ~(player'.hits > player.hits /\ lastOp'.id = i)]_vars

\* C37: update of an enabled manager leaves no dead agent in the active roster.
C37_DeadAgentsPruned ==
    [][(UpdateStep /\ managerEnabled)
          => \A k \in 1..Len(enemies') : zombies[enemies'[k]].isAlive]_vars

\* C39: a damage callback that lands passes the agent's attackDamage and the
\* agent itself to player.takeDamage.
C39_DamageIsArchetypeDamage ==
    (lastOp.op = "damageCallback" /\ lastOp.n = 1)
       => /\ player.lastAmount = zombies[lastOp.id].attackDamage
          /\ player.lastSource = lastOp.id

============================================================================
